---- MODULE Spec2Model ----
(***************************************************************************)
(* Model of the RTM generator (src/example-usage.js): the bounded          *)
(* concurrency helper `parallel` and AzureDevOpsRTMGenerator.generateRTM   *)
(* with the fetches it performs against the work-item backend.             *)
(*                                                                         *)
(* JavaScript runs the code between two awaits without interruption, so    *)
(* one action is one such synchronous segment: it starts when a pending    *)
(* promise (an fn invocation, an HTTP response) settles and runs up to the *)
(* next await.                                                             *)
(***************************************************************************)
EXTENDS Integers, Sequences, FiniteSets, TLC

\* ------------------------------------------------------------------ bounds
\* longest list handed to parallel in SpecPar
MaxLen == 3
\* largest limit handed to parallel in SpecPar
MaxLimit == 3
\* list items of SpecPar are 0..MaxItem (0 is falsy)
MaxItem == 1
\* longest userStoryIds handed to generateRTM in Spec
MaxIds == 2

\* most rows of a one-requirement matrix in SpecKpi
MaxRows == 10
\* most requirements (features) of a several-feature matrix in SpecKpi
MaxModules == 7
\* raw priorities of SpecFn are the numbers 0..MaxPriority
MaxPriority == 5

\* `limit = 5`, the default of parallel, which generateRTM relies on
DefaultLimit == 5
\* `.slice(0, 5)`: the length of the top and low performing lists
TopCount == 5
\* `coveragePercentage < 80`: below it a feature is a risk area
RiskThreshold == 80

VARIABLES
    list,       \* the list handed to parallel
    limit,      \* the limit handed to parallel
    cursor,     \* number of indices list.keys() has handed out
    workers,    \* the `limit` async worker closures of parallel
    promise,    \* state of the promise parallel returned (Promise.all)
    started,    \* started[i]: invocations of fn for list index i so far
    finished,   \* finished[i]: of those, how many have settled
    threw,      \* list indices whose fn invocation rejected
    tasks,      \* tasks[w]: the generateRTM callback worker w is inside
    rtmData,    \* the accumulator of generateRTM
    rtmMeta,    \* per row of rtmData: the list index, criterion and fetch
                \* position it was pushed for (history, not program state)
    reachable,  \* whether the backend answers requests
    firstRtm,   \* <<matrix>> once an earlier call of generateRTM has resolved
    request,    \* the input of the operation under way outside generateRTM
    response,   \* what that operation has answered so far
    rtmGenerator, \* the server's default generator, or "undefined"
    database    \* the server's database: the stored connections

\* the state of the server around its route handlers
serverVars == <<rtmGenerator, database>>

\* the state of the callers of generateRTM
callerVars == <<firstRtm, request, response, serverVars>>

vars == <<list, limit, cursor, workers, promise, started, finished, threw,
          tasks, rtmData, rtmMeta, reachable, callerVars>>

NoRequest == [op |-> "none"]
NoResponse == [status |-> "none"]
NoDatabase == [connections |-> <<>>]

\* no server is running
ServerIdle ==
    /\ rtmGenerator = "undefined"
    /\ database = NoDatabase

\* =================================================================
\* JavaScript values and text
\* =================================================================
\* A value that JavaScript leaves untyped (a raw field of a work item, the
\* 'Test Case ID' of a row): a number, a string or undefined.  A string is the
\* sequence of its characters.
JsNum(n) == [k |-> "number", n |-> n, s |-> <<>>]
JsStr(s) == [k |-> "string", n |-> 0, s |-> s]
JsUndef == [k |-> "undefined", n |-> 0, s |-> <<>>]
JsNull == [k |-> "null", n |-> 0, s |-> <<>>]

\* `!v` is false
JsTruthy(v) ==
    CASE v.k = "number" -> v.n # 0
      [] v.k = "string" -> v.s # <<>>
      [] OTHER -> FALSE

\* v || d
JsOr(v, d) == IF JsTruthy(v) THEN v ELSE d

UpperChars == <<"A", "B", "C", "D", "E", "F", "G", "H", "I", "J", "K", "L", "M", "N", "O", "P", "Q", "R", "S", "T", "U", "V", "W", "X", "Y", "Z">>
LowerChars == <<"a", "b", "c", "d", "e", "f", "g", "h", "i", "j", "k", "l", "m", "n", "o", "p", "q", "r", "s", "t", "u", "v", "w", "x", "y", "z">>
DigitChars == <<"0", "1", "2", "3", "4", "5", "6", "7", "8", "9">>

\* String.prototype.toLowerCase
LowerChar(c) ==
    IF \E k \in DOMAIN UpperChars : UpperChars[k] = c
    THEN LowerChars[CHOOSE k \in DOMAIN UpperChars : UpperChars[k] = c]
    ELSE c
RECURSIVE ToLowerCase(_)
ToLowerCase(s) ==
    IF s = <<>> THEN <<>> ELSE <<LowerChar(Head(s))>> \o ToLowerCase(Tail(s))

\* String.prototype.includes
Includes(s, kw) ==
    \E k \in 0..(Len(s) - Len(kw)) : SubSeq(s, k + 1, k + Len(kw)) = kw

\* String.prototype.trim
IsSpace(c) == c \in {" ", "\t", "\n"}
RECURSIVE TrimStart(_)
TrimStart(s) == IF s # <<>> /\ IsSpace(Head(s)) THEN TrimStart(Tail(s)) ELSE s
RECURSIVE TrimEnd(_)
TrimEnd(s) ==
    IF s # <<>> /\ IsSpace(s[Len(s)]) THEN TrimEnd(SubSeq(s, 1, Len(s) - 1)) ELSE s
Trim(s) == TrimEnd(TrimStart(s))

\* Number.prototype.toString of a non-negative integer
RECURSIVE NumToString(_)
NumToString(n) ==
    IF n < 10 THEN <<DigitChars[n + 1]>>
    ELSE NumToString(n \div 10) \o <<DigitChars[(n % 10) + 1]>>

\* azurePriority.toString()
JsToString(v) == IF v.k = "number" THEN NumToString(v.n) ELSE v.s

\* =================================================================
\* The work-item backend
\* =================================================================
TestedBy == <<"M", "i", "c", "r", "o", "s", "o", "f", "t", ".", "V", "S", "T", "S", ".", "C", "o", "m", "m", "o", "n", ".", "T", "e", "s", "t", "e", "d", "B", "y", "-", "F", "o", "r", "w", "a", "r", "d">>
Related == <<"S", "y", "s", "t", "e", "m", ".", "L", "i", "n", "k", "T", "y", "p", "e", "s", ".", "R", "e", "l", "a", "t", "e", "d">>
Tests == <<"T", "e", "s", "t", "s">>

WorkItemUrl(id) == <<"_apis", "wit", "workItems", id>>
Link(rel, id) == [rel |-> rel, url |-> WorkItemUrl(id)]

\* the fields of a work item; a field the backend does not send is undefined
\* (for a text field: the empty text, which every reader of it substitutes)
Fields(type, title, description, state, priority, areaPath, tags, acHtml, acNumber, scenarioType, relations) ==
    [type |-> type, title |-> title, description |-> description, state |-> state,
     priority |-> priority, areaPath |-> areaPath, tags |-> tags, acHtml |-> acHtml,
     acNumber |-> acNumber, scenarioType |-> scenarioType, relations |-> relations]

UserStoryItem(title, description, priority, areaPath, tags, acHtml, relations) ==
    Fields("User Story", title, description, "Active", priority, areaPath, tags, acHtml,
           JsUndef, "", relations)

TestCaseItem(title, description, state, priority, acNumber, scenarioType) ==
    Fields("Test Case", title, description, state, priority, <<>>, <<>>, <<>>,
           acNumber, scenarioType, <<>>)

\* The work items of the project.  acHtml is the acceptance-criteria HTML as
\* the texts of its <li> elements, in document order.
WorkItems ==
    (1 :> UserStoryItem(<<"E", "x", "p", "o", "r", "t", " ", "r", "e", "p", "o", "r", "t">>, <<>>, JsUndef, <<"P", "r", "o", "j", "\\", "B", "i", "l", "l", "i", "n", "g">>, <<"p", "e", "r", "f", "o", "r", "m", "a", "n", "c", "e">>,
                        <<<<"c", "a", "n", " ", "l", "o", "g", " ", "i", "n">>, <<"c", "a", "n", " ", "l", "o", "g", " ", "o", "u", "t">>>>, <<>>))
 @@ (2 :> UserStoryItem(<<"L", "o", "g", "i", "n">>, <<"S", "i", "g", "n", " ", "i", "n", " ", "f", "l", "o", "w">>, JsNum(1), <<"P", "r", "o", "j", "\\", "A", "u", "t", "h">>, <<>>,
                        <<<<"c", "a", "n", " ", "l", "o", "g", " ", "i", "n">>, <<" ">>, <<"c", "a", "n", " ", "l", "o", "g", " ", "o", "u", "t">>, <<" ", "c", "a", "n", " ", "r", "e", "s", "e", "t", " ">>>>,
                        <<Link(Related, 3), Link(TestedBy, 15),
                          [rel |-> Tests, url |-> <<>>], Link(TestedBy, 5),
                          Link(TestedBy, 11), Link(Tests, 13)>>))
 @@ (3 :> UserStoryItem(<<"A", "u", "d", "i", "t", " ", "l", "o", "g">>, <<"K", "e", "e", "p", " ", "a", " ", "t", "r", "a", "i", "l">>, JsNum(3), <<>>, <<"s", "e", "c", "u", "r", "i", "t", "y">>,
                        <<<<"i", "s", " ", "w", "r", "i", "t", "t", "e", "n">>, <<"i", "s", " ", "k", "e", "p", "t">>>>,
                        <<Link(TestedBy, 14), Link(TestedBy, 99)>>))
 @@ (4 :> UserStoryItem(<<"S", "e", "a", "r", "c", "h">>, <<>>, JsNum(2), <<"P", "r", "o", "j">>, <<>>,
                        <<>>, <<Link(TestedBy, 11)>>))
 @@ (5 :> Fields("Bug", <<"C", "r", "a", "s", "h">>, <<>>, "New", JsNum(1), <<"P", "r", "o", "j">>, <<>>, <<>>,
                 JsUndef, "", <<>>))
 @@ (7 :> UserStoryItem(<<>>, <<"B", "u", "i", "l", "d", " ", "U", "I", " ", "f", "o", "r", " ", "t", "h", "e", " ", "A", "P", "I">>, JsNum(4), <<"P", "r", "o", "j", "\\", "W", "e", "b", "\\", "P", "o", "r", "t", "a", "l">>, <<>>,
                        <<<<"s", "h", "o", "w", "s", " ", "t", "h", "e", " ", "l", "i", "s", "t">>>>,
                        <<Link(TestedBy, 5), Link(TestedBy, 99)>>))
 @@ (8 :> UserStoryItem(<<>>, <<"S", "h", "o", "w", "s", " ", "t", "h", "e", " ", "t", "o", "t", "a", "l", "s">>, JsNum(2), <<"P", "r", "o", "j", "\\", "W", "e", "b">>, <<>>,
                        <<<<"s", "h", "o", "w", "s", " ", "t", "h", "e", " ", "s", "u", "m">>>>, <<Link(TestedBy, 11)>>))
 @@ (11 :> TestCaseItem(<<"V", "e", "r", "i", "f", "y", " ", "l", "o", "g", "i", "n">>, <<>>, "Done", JsNum(1), JsNum(1), ""))
 @@ (13 :> TestCaseItem(<<"B", "a", "d", " ", "p", "a", "s", "s", "w", "o", "r", "d">>, <<"R", "e", "j", "e", "c", "t", "s", " ", "i", "t">>, "Active", JsNum(3), JsNum(1), "Negative"))
 @@ (14 :> TestCaseItem(<<"S", "m", "o", "k", "e">>, <<>>, "Completed", JsUndef, JsUndef, ""))
 @@ (15 :> TestCaseItem(<<"R", "e", "s", "e", "t">>, <<>>, "Closed", JsStr(<<"H", "i", "g", "h">>), JsNum(4), "Integration"))

\* what generateRTM can be asked for: user stories, a bug (5), an id that
\* does not exist (6)
RequestIds == {1, 2, 3, 4, 5, 6, 7, 8}

Null == [ok |-> FALSE]

\* makeApiRequest(url) for .../wit/workitems/<id>: response.data, or null when
\* the request fails (item not found, backend unreachable)
MakeApiRequest(id, up) ==
    IF up /\ id \in DOMAIN WorkItems
    THEN [ok |-> TRUE, id |-> id, fields |-> WorkItems[id]]
    ELSE Null

\* =================================================================
\* AzureDevOpsRTMGenerator: the pure parts
\* =================================================================
\* The mutant of ParseAcceptanceCriterias: the non-empty items are numbered
\* 1, 2, ... in parse order, empty items not counted
RECURSIVE NonEmptyItems(_)
NonEmptyItems(html) ==
    IF html = <<>> THEN <<>>
    ELSE (IF Trim(Head(html)) # <<>> THEN <<Trim(Head(html))>> ELSE <<>>)
         \o NonEmptyItems(Tail(html))
ParseAcceptanceCriteriasSequential(html) ==
    LET items == NonEmptyItems(html)
    IN  [k \in DOMAIN items |-> items[k]]

\* parseAcceptanceCriterias: criteria[index + 1] = text for every <li> whose
\* trimmed text is not empty (index counts every <li>, from 0)
ParseAcceptanceCriterias(html) ==
    LET keys == { i \in DOMAIN html : Trim(html[i]) # <<>> }
    IN  [k \in keys |-> Trim(html[k])]

\* areaPath.split('\\').pop()
RECURSIVE LastSegment(_)
LastSegment(path) ==
    IF \E k \in DOMAIN path : path[k] = "\\"
    THEN LastSegment(Tail(path))
    ELSE path

\* The mutant of UserStoryOf: the feature is the last segment of the area
\* path, and the title only without an area path
UserStoryOfAreaFirst(resp) ==
    IF ~resp.ok THEN Null
    ELSE IF resp.fields.type # "User Story" THEN Null
    ELSE LET f == resp.fields
             feature == IF f.areaPath # <<>> THEN LastSegment(f.areaPath) ELSE <<>>
         IN  [ok |-> TRUE,
              id |-> resp.id,
              title |-> f.title,
              description |-> f.description,
              state |-> f.state,
              priority |-> JsOr(f.priority, JsStr(<<"M", "e", "d", "i", "u", "m">>)),
              feature |-> IF feature # <<>> THEN feature ELSE f.title,
              tags |-> f.tags,
              acceptanceCriteria |-> ParseAcceptanceCriterias(f.acHtml)]

\* fetchUserStory, given the response of makeApiRequest
UserStoryOf(resp) ==
    IF ~resp.ok THEN Null
    ELSE IF resp.fields.type # "User Story" THEN Null
    ELSE LET f == resp.fields
             feature == IF f.areaPath # <<>> THEN LastSegment(f.areaPath) ELSE <<>>
         IN  [ok |-> TRUE,
              id |-> resp.id,
              title |-> f.title,
              description |-> f.description,
              state |-> f.state,
              priority |-> JsOr(f.priority, JsStr(<<"M", "e", "d", "i", "u", "m">>)),
              feature |-> IF f.title # <<>> THEN f.title ELSE feature,
              tags |-> f.tags,
              acceptanceCriteria |-> ParseAcceptanceCriterias(f.acHtml)]

\* The mutant of ExecutionStatus: a test case that is neither done nor closed
\* has not been executed and carries no outcome
ExecutionStatusUnrun(state) ==
    IF state \in {"Done", "Completed"} THEN "Pass"
    ELSE IF state = "Closed" THEN "Fail" ELSE ""

\* ['Done', 'Completed'].includes(state) ? 'Pass' : 'Fail'
ExecutionStatus(state) == IF state \in {"Done", "Completed"} THEN "Pass" ELSE "Fail"

\* fetchTestCase, given the response of makeApiRequest
TestCaseOf(resp) ==
    IF ~resp.ok THEN Null
    ELSE IF resp.fields.type # "Test Case" THEN Null
    ELSE LET f == resp.fields
         IN  [ok |-> TRUE,
              id |-> resp.id,
              title |-> f.title,
              description |-> f.description,
              state |-> f.state,
              priority |-> JsOr(f.priority, JsStr(<<"M", "e", "d", "i", "u", "m">>)),
              executionStatus |-> ExecutionStatus(f.state),
              acceptanceCriteria |-> JsOr(f.acNumber, JsStr(<<>>)),
              scenarioType |-> f.scenarioType]

\* The mutant of DetermineScenarioType: the UI keywords are tested before the
\* API keywords
DetermineScenarioTypeUIFirst(title, description, tags) ==
    LET content == ToLowerCase(title \o <<" ">> \o description \o <<" ">> \o tags)
        Some(keywords) == \E kw \in keywords : Includes(content, kw)
    IN  IF Some({<<"u", "i">>, <<"i", "n", "t", "e", "r", "f", "a", "c", "e">>, <<"s", "c", "r", "e", "e", "n">>, <<"p", "a", "g", "e">>}) THEN "UI"
        ELSE IF Some({<<"a", "p", "i">>, <<"s", "e", "r", "v", "i", "c", "e">>, <<"e", "n", "d", "p", "o", "i", "n", "t">>}) THEN "API"
        ELSE IF Some({<<"i", "n", "t", "e", "g", "r", "a", "t", "i", "o", "n">>, <<"e", "n", "d", "-", "t", "o", "-", "e", "n", "d">>, <<"e", "2", "e">>}) THEN "Integration"
        ELSE IF Some({<<"p", "e", "r", "f", "o", "r", "m", "a", "n", "c", "e">>, <<"l", "o", "a", "d">>, <<"s", "t", "r", "e", "s", "s">>}) THEN "Performance"
        ELSE IF Some({<<"s", "e", "c", "u", "r", "i", "t", "y">>, <<"a", "u", "t", "h", "e", "n", "t", "i", "c", "a", "t", "i", "o", "n">>, <<"a", "u", "t", "h", "o", "r", "i", "z", "a", "t", "i", "o", "n">>}) THEN "Security"
        ELSE "Functional"

\* determineScenarioType
DetermineScenarioType(title, description, tags) ==
    LET content == ToLowerCase(title \o <<" ">> \o description \o <<" ">> \o tags)
        Some(keywords) == \E kw \in keywords : Includes(content, kw)
    IN  IF Some({<<"a", "p", "i">>, <<"s", "e", "r", "v", "i", "c", "e">>, <<"e", "n", "d", "p", "o", "i", "n", "t">>}) THEN "API"
        ELSE IF Some({<<"u", "i">>, <<"i", "n", "t", "e", "r", "f", "a", "c", "e">>, <<"s", "c", "r", "e", "e", "n">>, <<"p", "a", "g", "e">>}) THEN "UI"
        ELSE IF Some({<<"i", "n", "t", "e", "g", "r", "a", "t", "i", "o", "n">>, <<"e", "n", "d", "-", "t", "o", "-", "e", "n", "d">>, <<"e", "2", "e">>}) THEN "Integration"
        ELSE IF Some({<<"p", "e", "r", "f", "o", "r", "m", "a", "n", "c", "e">>, <<"l", "o", "a", "d">>, <<"s", "t", "r", "e", "s", "s">>}) THEN "Performance"
        ELSE IF Some({<<"s", "e", "c", "u", "r", "i", "t", "y">>, <<"a", "u", "t", "h", "e", "n", "t", "i", "c", "a", "t", "i", "o", "n">>, <<"a", "u", "t", "h", "o", "r", "i", "z", "a", "t", "i", "o", "n">>}) THEN "Security"
        ELSE "Functional"

\* The mutant of MapPriority: the string is compared without toLowerCase()
MapPriorityCaseSensitive(azurePriority) ==
    IF azurePriority.k \in {"null", "undefined"} THEN "Medium"
    ELSE LET priorityStr == JsToString(azurePriority)
         IN  IF priorityStr \in {<<"1">>, <<"c", "r", "i", "t", "i", "c", "a", "l">>, <<"h", "i", "g", "h">>} THEN "High"
             ELSE IF priorityStr \in {<<"2">>, <<"m", "e", "d", "i", "u", "m">>, <<"n", "o", "r", "m", "a", "l">>} THEN "Medium"
             ELSE IF priorityStr \in {<<"3">>, <<"4">>, <<"l", "o", "w">>} THEN "Low"
             ELSE "Medium"

\* mapPriority
MapPriority(azurePriority) ==
    IF azurePriority.k \in {"null", "undefined"} THEN "Medium"
    ELSE LET priorityStr == ToLowerCase(JsToString(azurePriority))
         IN  IF priorityStr \in {<<"1">>, <<"c", "r", "i", "t", "i", "c", "a", "l">>, <<"h", "i", "g", "h">>} THEN "High"
             ELSE IF priorityStr \in {<<"2">>, <<"m", "e", "d", "i", "u", "m">>, <<"n", "o", "r", "m", "a", "l">>} THEN "Medium"
             ELSE IF priorityStr \in {<<"3">>, <<"4">>, <<"l", "o", "w">>} THEN "Low"
             ELSE "Medium"

\* the relation filter of fetchRelatedTestCases: a test relation with a url
IsTestRelation(relation) ==
    /\ \/ relation.rel = <<"M", "i", "c", "r", "o", "s", "o", "f", "t", ".", "V", "S", "T", "S", ".", "C", "o", "m", "m", "o", "n", ".", "T", "e", "s", "t", "e", "d", "B", "y">>
       \/ Includes(ToLowerCase(relation.rel), <<"t", "e", "s", "t">>)
    /\ relation.url # <<>>

\* the next relation after position `from` that fetchRelatedTestCases
\* resolves with fetchTestCase; 0 when the loop is over
NextRelation(rels, from) ==
    LET later == { k \in DOMAIN rels : k > from /\ IsTestRelation(rels[k]) }
    IN  IF later = {} THEN 0 ELSE CHOOSE k \in later : \A j \in later : k <= j

\* parseInt(relationUrl.split('/').pop())
TestCaseIdOf(url) == url[Len(url)]

\* The mutant of PushTestCase: `if (!testCase) continue` is missing
PushTestCaseUnchecked(tcs, tc) == Append(tcs, tc)

\* if (!testCase) continue; testCases.push(testCase)
PushTestCase(tcs, tc) == IF ~tc.ok THEN tcs ELSE Append(tcs, tc)

\* allTestCases.reduce(...): the Map from acceptance-criterion reference to
\* the test cases carrying it, in the order fetched
RECURSIVE TestCasesMapFrom(_, _)
TestCasesMapFrom(acc, tcs) ==
    IF tcs = <<>> THEN acc
    ELSE LET acNo == Head(tcs).acceptanceCriteria
             old == IF acNo \in DOMAIN acc THEN acc[acNo] ELSE <<>>
         IN  TestCasesMapFrom(
                 [x \in DOMAIN acc \cup {acNo} |->
                     IF x = acNo THEN old \o <<Head(tcs)>> ELSE acc[x]],
                 Tail(tcs))
\* The mutant of TestCasesMap: a test case without a reference number is
\* filed under the first criterion
RECURSIVE FirstWhenUnreferenced(_, _)
FirstWhenUnreferenced(acc, tcs) ==
    IF tcs = <<>> THEN acc
    ELSE LET acNo == IF Head(tcs).acceptanceCriteria = JsStr(<<>>) THEN JsNum(1)
                     ELSE Head(tcs).acceptanceCriteria
             old == IF acNo \in DOMAIN acc THEN acc[acNo] ELSE <<>>
         IN  FirstWhenUnreferenced(
                 [x \in DOMAIN acc \cup {acNo} |->
                     IF x = acNo THEN old \o <<Head(tcs)>> ELSE acc[x]],
                 Tail(tcs))
TestCasesMapUnreferencedFirst(tcs) == FirstWhenUnreferenced([x \in {} |-> <<>>], tcs)

TestCasesMap(tcs) == TestCasesMapFrom([x \in {} |-> <<>>], tcs)

\* The mutant of MapGet: the key is looked up as the string Object.entries
\* hands out, without Number(), and no number key of the Map equals it
MapGetStringKey(map, acNo) ==
    IF JsStr(NumToString(acNo)) \in DOMAIN map THEN map[JsStr(NumToString(acNo))] ELSE <<>>

\* testCasesMap.get(Number(acNo)) || []
MapGet(map, acNo) == IF JsNum(acNo) \in DOMAIN map THEN map[JsNum(acNo)] ELSE <<>>

\* The mutant of EntriesOrder: the criteria are visited in descending order
RECURSIVE EntriesOrderDesc(_)
EntriesOrderDesc(keys) ==
    IF keys = {} THEN <<>>
    ELSE LET m == CHOOSE k \in keys : \A j \in keys : k >= j
         IN  <<m>> \o EntriesOrderDesc(keys \ {m})

\* Object.entries(userStory.acceptanceCriteria): integer keys, ascending
RECURSIVE EntriesOrder(_)
EntriesOrder(keys) ==
    IF keys = {} THEN <<>>
    ELSE LET m == CHOOSE k \in keys : \A j \in keys : k <= j
         IN  <<m>> \o EntriesOrder(keys \ {m})

\* the row of a user story without test cases
NoTestCasesRow(userStoryId, us) ==
    [UserStoryId |-> userStoryId,
     Feature |-> us.feature,
     ScenarioType |-> DetermineScenarioType(us.title, us.description, us.tags),
     Description |-> us.title,
     TestCaseId |-> JsStr(<<>>),
     Status |-> "Missing",
     Priority |-> MapPriority(us.priority),
     Execution |-> ""]

\* The mutant of MissingRow: the row of a criterion without test cases is
\* built like a covered one
MissingRowAsCovered(userStoryId, us, criteria) ==
    [UserStoryId |-> userStoryId,
     Feature |-> us.title,
     ScenarioType |-> "Functional",
     Description |-> criteria,
     TestCaseId |-> JsStr(<<>>),
     Status |-> "Covered",
     Priority |-> "Medium",
     Execution |-> "Fail"]

\* the row of a criterion no test case refers to
MissingRow(userStoryId, us, criteria) ==
    [UserStoryId |-> userStoryId,
     Feature |-> us.title,
     ScenarioType |-> "Functional",
     Description |-> criteria,
     TestCaseId |-> JsStr(<<>>),
     Status |-> "Missing",
     Priority |-> "Medium",
     Execution |-> ""]

\* the row of one test case of a criterion
CoveredRow(userStoryId, us, testCase) ==
    [UserStoryId |-> userStoryId,
     Feature |-> us.title,
     ScenarioType |-> IF testCase.scenarioType # "" THEN testCase.scenarioType
                      ELSE "Functional",
     Description |-> IF testCase.description # <<>> THEN testCase.description
                     ELSE testCase.title,
     TestCaseId |-> JsNum(testCase.id),
     Status |-> "Covered",
     Priority |-> MapPriority(testCase.priority),
     Execution |-> testCase.executionStatus]

\* position of a test case in the order fetched
FetchPos(tcs, testCase) == CHOOSE j \in DOMAIN tcs : tcs[j] = testCase

\* the rows pushed for criterion acNo; each is tagged with the criterion
\* and, when covered, with the fetch position of its test case
CriterionRows(userStoryId, us, tcs, acNo) ==
    LET testCases == MapGet(TestCasesMap(tcs), acNo)
    IN  IF testCases = <<>>
        THEN << [row |-> MissingRow(userStoryId, us, us.acceptanceCriteria[acNo]),
                 ac |-> acNo, pos |-> 0] >>
        ELSE [j \in DOMAIN testCases |->
                 [row |-> CoveredRow(userStoryId, us, testCases[j]),
                  ac |-> acNo, pos |-> FetchPos(tcs, testCases[j])]]

RECURSIVE ConcatCriteria(_, _, _, _)
ConcatCriteria(userStoryId, us, tcs, order) ==
    IF order = <<>> THEN <<>>
    ELSE CriterionRows(userStoryId, us, tcs, Head(order))
         \o ConcatCriteria(userStoryId, us, tcs, Tail(order))

\* The mutant of Reconcile (1): the branch for a user story without test
\* cases is missing, its criteria are visited like any other's
ReconcilePerCriterion(userStoryId, us, tcs) ==
    IF \E j \in DOMAIN tcs : ~tcs[j].ok
    THEN [threw |-> TRUE, rows |-> <<>>]
    ELSE [threw |-> FALSE,
          rows |-> ConcatCriteria(userStoryId, us, tcs,
                                  EntriesOrder(DOMAIN us.acceptanceCriteria))]

RECURSIVE UpToFirstMissing(_)
UpToFirstMissing(rows) ==
    IF rows = <<>> THEN <<>>
    ELSE IF Head(rows).row.Status = "Missing" THEN <<Head(rows)>>
    ELSE <<Head(rows)>> \o UpToFirstMissing(Tail(rows))

\* The mutant of Reconcile (2): the `return` after the Missing row of a
\* criterion leaves the loop over the criteria instead of one iteration
ReconcileReturnLeavesLoop(userStoryId, us, tcs) ==
    IF tcs = <<>>
    THEN [threw |-> FALSE,
          rows |-> << [row |-> NoTestCasesRow(userStoryId, us), ac |-> 0, pos |-> 0] >>]
    ELSE IF \E j \in DOMAIN tcs : ~tcs[j].ok
    THEN [threw |-> TRUE, rows |-> <<>>]
    ELSE [threw |-> FALSE,
          rows |-> UpToFirstMissing(ConcatCriteria(userStoryId, us, tcs,
                                        EntriesOrder(DOMAIN us.acceptanceCriteria)))]

\* The mutant of Reconcile (3): a requirement without acceptance criteria is
\* treated like one without test cases
ReconcileMissingWithoutCriteria(userStoryId, us, tcs) ==
    IF tcs = <<>> \/ (us.ok /\ DOMAIN us.acceptanceCriteria = {})
    THEN [threw |-> FALSE,
          rows |-> << [row |-> NoTestCasesRow(userStoryId, us), ac |-> 0, pos |-> 0] >>]
    ELSE IF \E j \in DOMAIN tcs : ~tcs[j].ok
    THEN [threw |-> TRUE, rows |-> <<>>]
    ELSE [threw |-> FALSE,
          rows |-> ConcatCriteria(userStoryId, us, tcs,
                                  EntriesOrder(DOMAIN us.acceptanceCriteria))]

\* The body of the task of generateRTM after both fetches: the rows it
\* pushes, in push order.  Reading a property of a null test case throws.
Reconcile(userStoryId, us, tcs) ==
    IF tcs = <<>>
    THEN [threw |-> FALSE,
          rows |-> << [row |-> NoTestCasesRow(userStoryId, us), ac |-> 0, pos |-> 0] >>]
    ELSE IF \E j \in DOMAIN tcs : ~tcs[j].ok
    THEN [threw |-> TRUE, rows |-> <<>>]
    ELSE [threw |-> FALSE,
          rows |-> ConcatCriteria(userStoryId, us, tcs,
                                  EntriesOrder(DOMAIN us.acceptanceCriteria))]

\* -------------------------------------------------- one task of generateRTM
\* The async callback of generateRTM for one userStoryId, between awaits.
\* stage names the request the task is suspended on.
StartTask(userStoryId) ==
    [stage |-> "fetchUserStory", id |-> userStoryId, us |-> Null,
     rels |-> <<>>, rel |-> 0, tcs |-> <<>>, rows |-> <<>>]

NoTask == [stage |-> "none"]

\* the task returns (or throws) after fetchRelatedTestCases returned tcs
TaskEnd(t, tcs) ==
    LET r == Reconcile(t.id, t.us, tcs)
    IN  [t EXCEPT !.tcs = tcs,
                  !.stage = IF r.threw THEN "threw" ELSE "returned",
                  !.rows = r.rows]

\* The mutant of TaskStep: makeApiRequest has no try/catch, so a request the
\* backend does not answer throws out of the fetch and out of the task
TaskStepRethrow(t, up) ==
    IF ~up /\ t.stage \in {"fetchUserStory", "fetchRelations", "fetchTestCase"}
    THEN [t EXCEPT !.stage = "threw"]
    ELSE
    CASE t.stage = "fetchUserStory" ->
            LET us == UserStoryOf(MakeApiRequest(t.id, up))
            IN  IF ~us.ok THEN [t EXCEPT !.stage = "returned"]
                ELSE [t EXCEPT !.us = us, !.stage = "fetchRelations"]
      [] t.stage = "fetchRelations" ->
            LET resp == MakeApiRequest(t.id, up)
                rels == IF resp.ok THEN resp.fields.relations ELSE <<>>
                k == NextRelation(rels, 0)
            IN  IF k = 0 THEN TaskEnd(t, <<>>)
                ELSE [t EXCEPT !.rels = rels, !.rel = k, !.stage = "fetchTestCase"]
      [] t.stage = "fetchTestCase" ->
            LET tc == TestCaseOf(MakeApiRequest(TestCaseIdOf(t.rels[t.rel].url), up))
                tcs == PushTestCase(t.tcs, tc)
                k == NextRelation(t.rels, t.rel)
            IN  IF k = 0 THEN TaskEnd(t, tcs)
                ELSE [t EXCEPT !.tcs = tcs, !.rel = k]
      [] OTHER -> t

\* the segment of the task that the response it is suspended on starts
TaskStep(t, up) ==
    CASE t.stage = "fetchUserStory" ->
            LET us == UserStoryOf(MakeApiRequest(t.id, up))
            IN  IF ~us.ok THEN [t EXCEPT !.stage = "returned"]
                ELSE [t EXCEPT !.us = us, !.stage = "fetchRelations"]
      [] t.stage = "fetchRelations" ->
            LET resp == MakeApiRequest(t.id, up)
                rels == IF resp.ok THEN resp.fields.relations ELSE <<>>
                k == NextRelation(rels, 0)
            IN  IF k = 0 THEN TaskEnd(t, <<>>)
                ELSE [t EXCEPT !.rels = rels, !.rel = k, !.stage = "fetchTestCase"]
      [] t.stage = "fetchTestCase" ->
            LET tc == TestCaseOf(MakeApiRequest(TestCaseIdOf(t.rels[t.rel].url), up))
                tcs == PushTestCase(t.tcs, tc)
                k == NextRelation(t.rels, t.rel)
            IN  IF k = 0 THEN TaskEnd(t, tcs)
                ELSE [t EXCEPT !.tcs = tcs, !.rel = k]
      [] OTHER -> t

\* the task run with no other task around
RECURSIVE RunTask(_, _)
RunTask(t, up) ==
    IF t.stage \in {"returned", "threw", "none"} THEN t ELSE RunTask(TaskStep(t, up), up)

\* =================================================================
\* parallel(list, fn, limit)
\* =================================================================
\* JavaScript truthiness of a number: `if (item)`
Truthy(item) == item # 0

\* The mutant of WorkerRun: fn is invoked without being awaited
RECURSIVE WorkerRunNoAwait(_, _)
WorkerRunNoAwait(cur, lst) ==
    IF cur >= Len(lst)
    THEN [cursor |-> cur, idx |-> 0, calls |-> <<>>]
    ELSE LET rest == WorkerRunNoAwait(cur + 1, lst)
         IN  IF Truthy(lst[cur + 1])
             THEN [rest EXCEPT !.calls = <<cur + 1>> \o @]
             ELSE rest

\* The mutant of WorkerRun: the worker has no while loop, it handles the one
\* item it pulls first and returns
RECURSIVE WorkerRunOnce(_, _)
WorkerRunOnce(cur, lst) ==
    IF cur >= Len(lst) \/ cur >= limit
    THEN [cursor |-> cur, idx |-> 0, calls |-> <<>>]
    ELSE IF Truthy(lst[cur + 1])
         THEN [cursor |-> cur + 1, idx |-> cur + 1, calls |-> <<cur + 1>>]
         ELSE WorkerRunOnce(cur + 1, lst)

\* One synchronous segment of a worker's while loop, from iterator position
\* cur: indices are pulled until one holds a truthy item, fn is invoked on it
\* and the worker suspends on it (idx); idx = 0 when the iterator is exhausted.
RECURSIVE WorkerRun(_, _)
WorkerRun(cur, lst) ==
    IF cur >= Len(lst)
    THEN [cursor |-> cur, idx |-> 0, calls |-> <<>>]
    ELSE IF Truthy(lst[cur + 1])
         THEN [cursor |-> cur + 1, idx |-> cur + 1, calls |-> <<cur + 1>>]
         ELSE WorkerRun(cur + 1, lst)

\* started, after the invocations `calls`
RECURSIVE Invoke(_, _)
Invoke(st, calls) ==
    IF calls = <<>> THEN st
    ELSE Invoke([st EXCEPT ![Head(calls)] = @ + 1], Tail(calls))

\* the worker closure after the segment r
WorkerAfter(r) ==
    IF r.idx = 0 THEN [pc |-> "done", idx |-> 0]
    ELSE [pc |-> "awaiting", idx |-> r.idx]

\* [...Array(limit)].map(async ...): the workers w..lim run their first
\* segment one after the other, before parallel returns
RECURSIVE StartAll(_, _, _, _)
StartAll(w, lim, cur, lst) ==
    IF w > lim THEN <<>>
    ELSE LET r == WorkerRun(cur, lst)
         IN  <<r>> \o StartAll(w + 1, lim, r.cursor, lst)

RECURSIVE InvokeAll(_, _)
InvokeAll(st, rs) ==
    IF rs = <<>> THEN st ELSE InvokeAll(Invoke(st, Head(rs).calls), Tail(rs))

Outstanding(i) == started[i] - finished[i]

RECURSIVE SumOver(_, _)
SumOver(f, S) ==
    IF S = {} THEN 0
    ELSE LET x == CHOOSE y \in S : TRUE IN f[x] + SumOver(f, S \ {x})

\* number of fn invocations started and not yet settled
InFlightCount == SumOver(started, DOMAIN started) - SumOver(finished, DOMAIN finished)

\* the worker, if any, suspended on the invocation for index i
Awaiting(i) == { w \in DOMAIN workers : workers[w].pc = "awaiting" /\ workers[w].idx = i }

\* Promise.all(promises): rejects as soon as one worker promise has rejected,
\* fulfils once every worker promise has fulfilled
PromiseAllSettle ==
    /\ promise = "pending"
    /\ \/ \E w \in DOMAIN workers : workers[w].pc = "rejected"
       \/ \A w \in DOMAIN workers : workers[w].pc = "done"
    /\ promise' = IF \E w \in DOMAIN workers : workers[w].pc = "rejected"
                  THEN "rejected" ELSE "fulfilled"
    /\ UNCHANGED <<list, limit, cursor, workers, started, finished, threw,
                   tasks, rtmData, rtmMeta, reachable, callerVars>>

\* ------------------------------------------------ SpecPar: parallel alone
\* parallel(list, fn, limit) with an async fn that fulfils or rejects

Lists == UNION { [1..n -> 0..MaxItem] : n \in 0..MaxLen }

InitPar ==
    /\ list \in Lists
    /\ limit \in 1..MaxLimit
    /\ cursor = 0
    /\ workers = [w \in 1..limit |-> [pc |-> "new", idx |-> 0]]
    /\ promise = "none"
    /\ started = [i \in 1..Len(list) |-> 0]
    /\ finished = [i \in 1..Len(list) |-> 0]
    /\ threw = {}
    /\ tasks = <<>>
    /\ rtmData = <<>>
    /\ rtmMeta = <<>>
    /\ reachable = TRUE
    /\ firstRtm = <<>>
    /\ request = NoRequest
    /\ response = NoResponse
    /\ ServerIdle

\* the call parallel(list, fn, limit) itself
ParallelCall ==
    /\ promise = "none"
    /\ LET rs == StartAll(1, limit, cursor, list)
       IN  /\ workers' = [w \in 1..limit |-> WorkerAfter(rs[w])]
           /\ cursor' = rs[limit].cursor
           /\ started' = InvokeAll(started, rs)
    /\ promise' = "pending"
    /\ UNCHANGED <<list, limit, finished, threw, tasks, rtmData, rtmMeta, reachable, callerVars>>

\* fn(list[i]) fulfils: the worker awaiting it runs its next loop segment
FnFulfil(i) ==
    /\ Outstanding(i) > 0
    /\ finished' = [finished EXCEPT ![i] = @ + 1]
    /\ IF Awaiting(i) = {}
       THEN UNCHANGED <<workers, cursor, started>>
       ELSE LET w == CHOOSE x \in Awaiting(i) : TRUE
                r == WorkerRun(cursor, list)
            IN  /\ workers' = [workers EXCEPT ![w] = WorkerAfter(r)]
                /\ cursor' = r.cursor
                /\ started' = Invoke(started, r.calls)
    /\ UNCHANGED <<list, limit, promise, threw, tasks, rtmData, rtmMeta, reachable, callerVars>>

\* fn(list[i]) rejects: `await` rethrows inside the worker, whose while loop
\* has no try/catch, so the worker's promise rejects and it pulls no more
FnReject(i) ==
    /\ Outstanding(i) > 0
    /\ finished' = [finished EXCEPT ![i] = @ + 1]
    /\ threw' = threw \cup {i}
    /\ workers' = [w \in DOMAIN workers |->
                      IF w \in Awaiting(i) THEN [pc |-> "rejected", idx |-> i]
                      ELSE workers[w]]
    /\ UNCHANGED <<list, limit, cursor, promise, started, tasks, rtmData, rtmMeta, reachable, callerVars>>

NextPar ==
    \/ ParallelCall
    \/ \E i \in DOMAIN started : FnFulfil(i)
    \/ \E i \in DOMAIN started : FnReject(i)
    \/ PromiseAllSettle

SpecPar == InitPar /\ [][NextPar]_vars

\* ------------------------------------------------ Spec: generateRTM
\* generateRTM(userStoryIds) against the backend WorkItems

IdLists == UNION { [1..n -> RequestIds] : n \in 0..MaxIds }

Init ==
    /\ list \in IdLists
    /\ limit = DefaultLimit
    /\ reachable \in BOOLEAN
    /\ cursor = 0
    /\ workers = [w \in 1..limit |-> [pc |-> "new", idx |-> 0]]
    /\ promise = "none"
    /\ started = [i \in 1..Len(list) |-> 0]
    /\ finished = [i \in 1..Len(list) |-> 0]
    /\ threw = {}
    /\ tasks = [w \in 1..limit |-> NoTask]
    /\ rtmData = <<>>
    /\ rtmMeta = <<>>
    /\ firstRtm = <<>>
    /\ request = NoRequest
    /\ response = NoResponse
    /\ ServerIdle

\* the task a worker is inside after the loop segment r
TaskAfter(r) == IF r.idx = 0 THEN NoTask ELSE StartTask(list[r.idx])

\* The mutant of PushRows: the rows replace the accumulator
PushRowsAssign(acc, rows) == rows

\* The mutant of PushRows: the first row of a task is pushed when the task
\* starts to write, ahead of the rows other tasks have written, the others
\* at the end
PushRowsApart(acc, rows) ==
    IF rows = <<>> THEN acc
    ELSE <<rows[1]>> \o acc \o SubSeq(rows, 2, Len(rows))

\* rtmData.push(row) for each row of a task, in order
PushRows(acc, rows) == acc \o rows

\* generateRTM up to `await parallel(...)`: every worker pulls its first id
\* and its task sends the user-story request
GenerateRTMCall ==
    /\ promise = "none"
    /\ LET rs == StartAll(1, limit, cursor, list)
       IN  /\ workers' = [w \in 1..limit |-> WorkerAfter(rs[w])]
           /\ tasks' = [w \in 1..limit |-> TaskAfter(rs[w])]
           /\ cursor' = rs[limit].cursor
           /\ started' = InvokeAll(started, rs)
    /\ promise' = "pending"
    /\ rtmData' = <<>>
    /\ rtmMeta' = <<>>
    /\ UNCHANGED <<list, limit, finished, threw, reachable, callerVars>>

\* The response worker w's task is suspended on arrives: the task runs to its
\* next request; when it returns, its rows are pushed and the worker pulls
\* the next id; when it throws, the worker's promise rejects.
Resume(w) ==
    LET t == TaskStep(tasks[w], reachable)
        i == workers[w].idx
    IN  IF t.stage = "returned"
        THEN LET r == WorkerRun(cursor, list)
             IN  /\ rtmData' = PushRows(rtmData, [j \in DOMAIN t.rows |-> t.rows[j].row])
                 /\ rtmMeta' = PushRows(rtmMeta,
                        [j \in DOMAIN t.rows |->
                            [task |-> i, ac |-> t.rows[j].ac, pos |-> t.rows[j].pos]])
                 /\ finished' = [finished EXCEPT ![i] = @ + 1]
                 /\ workers' = [workers EXCEPT ![w] = WorkerAfter(r)]
                 /\ tasks' = [tasks EXCEPT ![w] = TaskAfter(r)]
                 /\ cursor' = r.cursor
                 /\ started' = Invoke(started, r.calls)
                 /\ UNCHANGED threw
        ELSE IF t.stage = "threw"
        THEN /\ finished' = [finished EXCEPT ![i] = @ + 1]
             /\ threw' = threw \cup {i}
             /\ workers' = [workers EXCEPT ![w] = [pc |-> "rejected", idx |-> i]]
             /\ tasks' = [tasks EXCEPT ![w] = NoTask]
             /\ UNCHANGED <<rtmData, rtmMeta, cursor, started>>
        ELSE /\ tasks' = [tasks EXCEPT ![w] = t]
             /\ UNCHANGED <<rtmData, rtmMeta, finished, workers, cursor, started, threw>>

\* the response to fetchUserStory's request arrives
UserStoryResponse(w) ==
    /\ workers[w].pc = "awaiting"
    /\ tasks[w].stage = "fetchUserStory"
    /\ Resume(w)
    /\ UNCHANGED <<list, limit, promise, reachable, callerVars>>

\* the response to the $expand=Relations request of fetchRelatedTestCases arrives
RelationsResponse(w) ==
    /\ workers[w].pc = "awaiting"
    /\ tasks[w].stage = "fetchRelations"
    /\ Resume(w)
    /\ UNCHANGED <<list, limit, promise, reachable, callerVars>>

\* the response to a fetchTestCase request arrives
TestCaseResponse(w) ==
    /\ workers[w].pc = "awaiting"
    /\ tasks[w].stage = "fetchTestCase"
    /\ Resume(w)
    /\ UNCHANGED <<list, limit, promise, reachable, callerVars>>

Next ==
    \/ GenerateRTMCall
    \/ \E w \in DOMAIN workers : UserStoryResponse(w)
    \/ \E w \in DOMAIN workers : RelationsResponse(w)
    \/ \E w \in DOMAIN workers : TestCaseResponse(w)
    \/ PromiseAllSettle

Spec == Init /\ [][Next]_vars

\* ------------------------------------------------ SpecLive: generateRTM runs to completion
\* generateRTM over lists shorter and longer than the number of workers,
\* where every request the tasks send is eventually answered (with data, or
\* with the failure makeApiRequest turns into null) and a promise whose
\* condition is met eventually settles.
LiveLists == { <<>>, <<8, 4>>, <<6, 5, 6, 5, 6, 8>> }

InitLive ==
    /\ list \in LiveLists
    /\ limit = DefaultLimit
    /\ reachable \in BOOLEAN
    /\ cursor = 0
    /\ workers = [w \in 1..limit |-> [pc |-> "new", idx |-> 0]]
    /\ promise = "none"
    /\ started = [i \in 1..Len(list) |-> 0]
    /\ finished = [i \in 1..Len(list) |-> 0]
    /\ threw = {}
    /\ tasks = [w \in 1..limit |-> NoTask]
    /\ rtmData = <<>>
    /\ rtmMeta = <<>>
    /\ firstRtm = <<>>
    /\ request = NoRequest
    /\ response = NoResponse
    /\ ServerIdle

\* every gateway request eventually returns, and the event loop runs the
\* continuation of a settled promise: as long as a response is outstanding
\* or a promise can settle, one of these steps is eventually taken
Fairness == WF_vars(Next)

SpecLive == InitLive /\ [][Next]_vars /\ Fairness

\* ------------------------------------------------ SpecTwice: generateRTM twice
\* The caller keeps the matrix generateRTM(userStoryIds) resolved with and
\* calls generateRTM(userStoryIds) again: a new accumulator, a new iterator
\* and new workers over the same ids and the same backend.
GenerateRTMAgain ==
    /\ promise = "fulfilled"
    /\ firstRtm = <<>>
    /\ firstRtm' = <<rtmData>>
    /\ LET rs == StartAll(1, limit, 0, list)
       IN  /\ workers' = [w \in 1..limit |-> WorkerAfter(rs[w])]
           /\ tasks' = [w \in 1..limit |-> TaskAfter(rs[w])]
           /\ cursor' = rs[limit].cursor
           /\ started' = InvokeAll([i \in 1..Len(list) |-> 0], rs)
    /\ finished' = [i \in 1..Len(list) |-> 0]
    /\ threw' = {}
    /\ promise' = "pending"
    /\ rtmData' = <<>>
    /\ rtmMeta' = <<>>
    /\ UNCHANGED <<list, limit, reachable, request, response, serverVars>>

NextTwice ==
    \/ GenerateRTMCall
    \/ \E w \in DOMAIN workers : UserStoryResponse(w)
    \/ \E w \in DOMAIN workers : RelationsResponse(w)
    \/ \E w \in DOMAIN workers : TestCaseResponse(w)
    \/ PromiseAllSettle
    \/ GenerateRTMAgain

\* the ids asked for twice: requirements with rows of several criteria (2, 3),
\* one without criteria (4) and an id that does not exist (6)
TwiceIds == {2, 3, 4, 6}

InitTwice ==
    /\ list \in UNION { [1..n -> TwiceIds] : n \in 0..MaxIds }
    /\ limit = DefaultLimit
    /\ reachable = TRUE
    /\ cursor = 0
    /\ workers = [w \in 1..limit |-> [pc |-> "new", idx |-> 0]]
    /\ promise = "none"
    /\ started = [i \in 1..Len(list) |-> 0]
    /\ finished = [i \in 1..Len(list) |-> 0]
    /\ threw = {}
    /\ tasks = [w \in 1..limit |-> NoTask]
    /\ rtmData = <<>>
    /\ rtmMeta = <<>>
    /\ firstRtm = <<>>
    /\ request = NoRequest
    /\ response = NoResponse
    /\ ServerIdle

SpecTwice == InitTwice /\ [][NextTwice]_vars

\* ------------------------------------------------ SpecFn: the classifiers
\* mapPriority and determineScenarioType called on their own, on inputs the
\* backend can send: a raw priority is a number, a string, null or absent; a
\* title, a description and tags are texts.

\* the state of parallel and generateRTM
generatorVars == <<list, limit, cursor, workers, promise, started, finished,
                   threw, tasks, rtmData, rtmMeta, reachable>>

\* no call of generateRTM is under way
GeneratorIdle ==
    /\ list = <<>>
    /\ limit = DefaultLimit
    /\ cursor = 0
    /\ workers = <<>>
    /\ promise = "none"
    /\ started = <<>>
    /\ finished = <<>>
    /\ threw = {}
    /\ tasks = <<>>
    /\ rtmData = <<>>
    /\ rtmMeta = <<>>
    /\ reachable = TRUE

\* String.prototype.toUpperCase, to write a word in another case
UpperChar(c) ==
    IF \E k \in DOMAIN LowerChars : LowerChars[k] = c
    THEN UpperChars[CHOOSE k \in DOMAIN LowerChars : LowerChars[k] = c]
    ELSE c
RECURSIVE ToUpperCase(_)
ToUpperCase(s) ==
    IF s = <<>> THEN <<>> ELSE <<UpperChar(Head(s))>> \o ToUpperCase(Tail(s))

CaseForms == {"lower", "upper", "capital"}
Cased(word, form) ==
    CASE form = "upper" -> ToUpperCase(word)
      [] form = "capital" ->
            IF word = <<>> THEN <<>> ELSE <<UpperChar(Head(word))>> \o Tail(word)
      [] OTHER -> word

\* the words mapPriority knows, by the priority it gives them
HighWords == {<<"c", "r", "i", "t", "i", "c", "a", "l">>, <<"h", "i", "g", "h">>}
MediumWords == {<<"m", "e", "d", "i", "u", "m">>, <<"n", "o", "r", "m", "a", "l">>}
LowWords == {<<"l", "o", "w">>}
HighNumbers == {1}
MediumNumbers == {2}
LowNumbers == {3, 4}
\* words it does not know
OtherWords == {<<"u", "r", "g", "e", "n", "t">>, <<"h", "i", "g", "h", "e", "s", "t">>, <<" ", "h", "i", "g", "h">>, <<"p", "1">>, <<"l", "o", "w", "e", "s", "t">>, <<"n", "o", "n", "e">>, <<"1", "0">>, <<"1", ".", "5">>, <<>>}

\* the raw priorities: numbers, the same numbers as strings, the words in
\* three cases, null and undefined
PriorityInputs ==
    { JsNum(n) : n \in 0..MaxPriority }
    \cup { JsStr(NumToString(n)) : n \in 0..MaxPriority }
    \cup { JsStr(Cased(w, f)) :
             w \in HighWords \cup MediumWords \cup LowWords \cup OtherWords,
             f \in CaseForms }
    \cup {JsNull, JsUndef}

\* a text together with the keyword groups whose keywords were put into it
Text(text, groups) == [text |-> text, groups |-> groups]

Titles ==
    { Text(<<"E", "x", "p", "o", "r", "t", " ", "r", "e", "p", "o", "r", "t">>, {}),
      Text(<<"B", "u", "i", "l", "d", " ", "U", "I", " ", "f", "o", "r", " ", "t", "h", "e", " ", "A", "P", "I">>, {"API", "UI"}),
      Text(<<"L", "o", "g", "i", "n", " ", "P", "a", "g", "e">>, {"UI"}),
      Text(<<"P", "a", "y", "m", "e", "n", "t", " ", "S", "E", "R", "V", "I", "C", "E">>, {"API"}),
      Text(<<"E", "2", "E", " ", "c", "h", "e", "c", "k", "o", "u", "t">>, {"Integration"}),
      Text(<<"S", "t", "r", "e", "s", "s", " ", "t", "h", "e", " ", "s", "c", "r", "e", "e", "n">>, {"Performance", "UI"}),
      Text(<<"S", "t", "y", "l", "e", " ", "g", "u", "i", "d", "e">>, {"UI"}),
      Text(<<>>, {}) }
Descriptions ==
    { Text(<<>>, {}),
      Text(<<"K", "e", "e", "p", " ", "a", " ", "t", "r", "a", "i", "l">>, {}),
      Text(<<"C", "a", "l", "l", "s", " ", "t", "h", "e", " ", "e", "n", "d", "p", "o", "i", "n", "t", " ", "u", "n", "d", "e", "r", " ", "l", "o", "a", "d">>, {"API", "Performance"}),
      Text(<<"E", "n", "d", "-", "t", "o", "-", "E", "n", "d", " ", "w", "i", "t", "h", " ", "A", "u", "t", "h", "e", "n", "t", "i", "c", "a", "t", "i", "o", "n">>, {"Integration", "Security"}),
      Text(<<"A", "u", "t", "h", "o", "r", "i", "z", "a", "t", "i", "o", "n", " ", "o", "f", " ", "t", "h", "e", " ", "i", "n", "t", "e", "r", "f", "a", "c", "e">>, {"Security", "UI"}) }
Tags ==
    { Text(<<>>, {}),
      Text(<<"s", "e", "c", "u", "r", "i", "t", "y", ";", " ", "p", "e", "r", "f", "o", "r", "m", "a", "n", "c", "e">>, {"Security", "Performance"}),
      Text(<<"I", "n", "t", "e", "g", "r", "a", "t", "i", "o", "n">>, {"Integration"}),
      Text(<<"S", "e", "c", "u", "r", "i", "t", "y">>, {"Security"}) }

\* the <li> elements parseAcceptanceCriterias is called with: the text of
\* each and, as the expected value, the same text without the white space
\* around it
MaxListItems == 3
ListItem(text, trimmed) == [text |-> text, trimmed |-> trimmed]
ListItems ==
    { ListItem(<<" ", "c", "a", "n", " ", "l", "o", "g", " ", "i", "n", " ">>, <<"c", "a", "n", " ", "l", "o", "g", " ", "i", "n">>), ListItem(<<"x">>, <<"x">>),
      ListItem(<<" ", " ">>, <<>>), ListItem(<<>>, <<>>) }
HtmlLists == UNION { [1..n -> ListItems] : n \in 0..MaxListItems }
ParseRequests ==
    { [op |-> "parseAcceptanceCriterias",
       html |-> [k \in DOMAIN l |-> l[k].text],
       trimmed |-> [k \in DOMAIN l |-> l[k].trimmed]] : l \in HtmlLists }

FnRequests ==
    { [op |-> "mapPriority", arg |-> v] : v \in PriorityInputs }
    \cup { [op |-> "determineScenarioType", title |-> t.text,
            description |-> d.text, tags |-> g.text,
            groups |-> t.groups \cup d.groups \cup g.groups] :
             t \in Titles, d \in Descriptions, g \in Tags }
    \cup ParseRequests

InitFn ==
    /\ GeneratorIdle
    /\ firstRtm = <<>>
    /\ request \in FnRequests
    /\ response = NoResponse
    /\ ServerIdle

\* mapPriority(azurePriority)
MapPriorityCall ==
    /\ request.op = "mapPriority"
    /\ response = NoResponse
    /\ response' = [status |-> "returned", value |-> MapPriority(request.arg)]
    /\ UNCHANGED <<generatorVars, firstRtm, request, serverVars>>

\* determineScenarioType(title, description, tags)
DetermineScenarioTypeCall ==
    /\ request.op = "determineScenarioType"
    /\ response = NoResponse
    /\ response' = [status |-> "returned",
                    value |-> DetermineScenarioType(request.title,
                                  request.description, request.tags)]
    /\ UNCHANGED <<generatorVars, firstRtm, request, serverVars>>

\* parseAcceptanceCriterias(htmlString)
ParseAcceptanceCriteriasCall ==
    /\ request.op = "parseAcceptanceCriterias"
    /\ response = NoResponse
    /\ response' = [status |-> "returned", value |-> ParseAcceptanceCriterias(request.html)]
    /\ UNCHANGED <<generatorVars, firstRtm, request, serverVars>>

NextFn ==
    \/ MapPriorityCall
    \/ DetermineScenarioTypeCall
    \/ ParseAcceptanceCriteriasCall

SpecFn == InitFn /\ [][NextFn]_vars

\* =================================================================
\* The coverage statistics of the output surfaces
\* =================================================================
\* rtmData.filter(row => row[column] === value).length
CountWhere(m, Test(_)) == Cardinality({ p \in DOMAIN m : Test(m[p]) })

\* new Set(rtmData.map(row => row['User Story ID'])).size
UserStoryCount(m) == Cardinality({ m[p].UserStoryId : p \in DOMAIN m })

\* The mutant of Percentage: Math.floor instead of Math.round
PercentageFloor(part, whole) ==
    IF whole > 0 THEN (100 * part) \div whole ELSE 0

\* whole > 0 ? Math.round((part / whole) * 100) : 0
\* (Math.round rounds a half up)
Percentage(part, whole) ==
    IF whole > 0 THEN (200 * part + whole) \div (2 * whole) ELSE 0

\* whole > 0 ? ((part / whole) * 100).toFixed(1) : '0.0', followed by '%'
PercentageText(part, whole) ==
    LET tenths == IF whole > 0 THEN (2000 * part + whole) \div (2 * whole) ELSE 0
    IN  NumToString(tenths \div 10) \o <<".">> \o NumToString(tenths % 10) \o <<"%">>

\* [...new Set(rtmData.map(row => row['Feature']).filter(feature => feature))]:
\* the non-empty labels in the order they first appear
RECURSIVE UniqueFeaturesFrom(_, _)
UniqueFeaturesFrom(seen, m) ==
    IF m = <<>> THEN seen
    ELSE LET feature == Head(m).Feature
         IN  UniqueFeaturesFrom(
                 IF feature = <<>> \/ \E k \in DOMAIN seen : seen[k] = feature
                 THEN seen ELSE Append(seen, feature),
                 Tail(m))
UniqueFeatures(m) == UniqueFeaturesFrom(<<>>, m)

\* rtmData.filter(row => row['Feature'] === feature)
RECURSIVE FeatureData(_, _)
FeatureData(m, feature) ==
    IF m = <<>> THEN <<>>
    ELSE (IF Head(m).Feature = feature THEN <<Head(m)>> ELSE <<>>)
         \o FeatureData(Tail(m), feature)

IsCovered(row) == row.Status = "Covered"
IsMissing(row) == row.Status = "Missing"
IsPass(row) == row.Execution = "Pass"
IsFail(row) == row.Execution = "Fail"
HasTestCaseId(row) == row.TestCaseId # JsStr(<<>>)

\* the statistics of one feature
ModuleCoverage(m, feature) ==
    LET featureData == FeatureData(m, feature)
        totalUseCases == Len(featureData)
        totalCoveredForFeature == CountWhere(featureData, IsCovered)
    IN  [feature |-> feature,
         totalUseCases |-> totalUseCases,
         totalCovered |-> totalCoveredForFeature,
         coveragePercentage |-> Percentage(totalCoveredForFeature, totalUseCases),
         pass |-> CountWhere(featureData, IsPass),
         fail |-> CountWhere(featureData, IsFail)]

\* uniqueFeatures.map(feature => ...)
RECURSIVE ModuleWiseOf(_, _)
ModuleWiseOf(m, features) ==
    IF features = <<>> THEN <<>>
    ELSE <<ModuleCoverage(m, Head(features))>> \o ModuleWiseOf(m, Tail(features))
ModuleWiseCoverage(m) == ModuleWiseOf(m, UniqueFeatures(m))

\* the comparators of the two rankings: compare(x, y) < 0, x goes before y
\*   "descending": (a, b) => b.coveragePercentage - a.coveragePercentage
\*   "ascending":  (a, b) => a.coveragePercentage - b.coveragePercentage
Before(x, y, order) ==
    IF order = "descending" THEN x.coveragePercentage > y.coveragePercentage
    ELSE x.coveragePercentage < y.coveragePercentage

\* Array.prototype.sort with a comparator is stable: x goes in front of the
\* first element that the comparator puts after it
RECURSIVE SortInsert(_, _, _)
SortInsert(sorted, x, order) ==
    IF sorted = <<>> THEN <<x>>
    ELSE IF Before(x, Head(sorted), order) THEN <<x>> \o sorted
    ELSE <<Head(sorted)>> \o SortInsert(Tail(sorted), x, order)
RECURSIVE SortFrom(_, _, _)
SortFrom(sorted, s, order) ==
    IF s = <<>> THEN sorted
    ELSE SortFrom(SortInsert(sorted, Head(s), order), Tail(s), order)
Sort(s, order) == SortFrom(<<>>, s, order)

\* .slice(0, n)
Slice(s, n) == SubSeq(s, 1, IF Len(s) < n THEN Len(s) ELSE n)

\* .filter(module => module.totalUseCases > 0)
RECURSIVE WithUseCases(_)
WithUseCases(modules) ==
    IF modules = <<>> THEN <<>>
    ELSE (IF Head(modules).totalUseCases > 0 THEN <<Head(modules)>> ELSE <<>>)
         \o WithUseCases(Tail(modules))

\* .filter(module => module.coveragePercentage < 80 && module.totalUseCases > 0)
RECURSIVE AtRisk(_)
AtRisk(modules) ==
    IF modules = <<>> THEN <<>>
    ELSE (IF Head(modules).coveragePercentage < RiskThreshold
             /\ Head(modules).totalUseCases > 0
          THEN <<Head(modules)>> ELSE <<>>)
         \o AtRisk(Tail(modules))

\* .map(module => ({feature, coveragePercentage, totalUseCases}))
RECURSIVE Brief(_)
Brief(modules) ==
    IF modules = <<>> THEN <<>>
    ELSE << [feature |-> Head(modules).feature,
             coveragePercentage |-> Head(modules).coveragePercentage,
             totalUseCases |-> Head(modules).totalUseCases] >>
         \o Brief(Tail(modules))

\* .map(module => ({..., gap: module.totalUseCases - module.totalCovered}))
RECURSIVE BriefWithGap(_)
BriefWithGap(modules) ==
    IF modules = <<>> THEN <<>>
    ELSE << [feature |-> Head(modules).feature,
             coveragePercentage |-> Head(modules).coveragePercentage,
             totalUseCases |-> Head(modules).totalUseCases,
             gap |-> Head(modules).totalUseCases - Head(modules).totalCovered] >>
         \o BriefWithGap(Tail(modules))

\* The mutant of TopPerformingModules: slice(0, 5) is applied before sort
TopPerformingModulesSliceFirst(modules) ==
    Brief(Sort(Slice(WithUseCases(modules), TopCount), "descending"))

\* summary.topPerformingModules
TopPerformingModules(modules) ==
    Brief(Slice(Sort(WithUseCases(modules), "descending"), TopCount))

\* summary.lowPerformingModules
LowPerformingModules(modules) ==
    Brief(Slice(Sort(WithUseCases(modules), "ascending"), TopCount))

\* the summary of GET /rtm-report
RtmReportSummary(m) ==
    LET totalUserStories == UserStoryCount(m)
        coveredUserStories ==
            Cardinality({ m[p].UserStoryId : p \in { q \in DOMAIN m : IsCovered(m[q]) } })
    IN  [status |-> "returned",
         totalUserStories |-> totalUserStories,
         totalTestCases |-> CountWhere(m, HasTestCaseId),
         coveredUserStories |-> coveredUserStories,
         missingTestCases |-> CountWhere(m, IsMissing),
         coveragePercentage |-> PercentageText(coveredUserStories, totalUserStories)]

\* the KPI data of GET /rtm-download
RtmDownloadKpi(m) ==
    LET totalUserStories == UserStoryCount(m)
        totalTestCases == Len(m)
        totalCovered == CountWhere(m, IsCovered)
        passCount == CountWhere(m, IsPass)
        failCount == CountWhere(m, IsFail)
        moduleWiseCoverage == ModuleWiseCoverage(m)
    IN  [status |-> "returned",
         totalUserStories |-> totalUserStories,
         totalModules |-> Len(UniqueFeatures(m)),
         totalUseCases |-> totalTestCases,
         totalCovered |-> totalCovered,
         coveragePercentage |-> Percentage(totalCovered, totalTestCases),
         uncoveredUserStories |->
            totalUserStories
            - Cardinality({ m[p].UserStoryId : p \in { q \in DOMAIN m : IsCovered(m[q]) } }),
         execution |-> [total |-> passCount + failCount,
                        pass |-> passCount,
                        fail |-> failCount,
                        passPercentage |-> Percentage(passCount, passCount + failCount),
                        failPercentage |-> Percentage(failCount, passCount + failCount)],
         moduleWiseCoverage |-> moduleWiseCoverage,
         topPerformingModules |-> TopPerformingModules(moduleWiseCoverage),
         lowPerformingModules |-> LowPerformingModules(moduleWiseCoverage),
         riskAreas |-> BriefWithGap(AtRisk(moduleWiseCoverage))]

\* the KPI sheet exportToExcel writes
ExcelKpi(m) ==
    LET totalTestCases == Len(m)
        totalCovered == CountWhere(m, IsCovered)
    IN  [status |-> "returned",
         totalModules |-> Len(UniqueFeatures(m)),
         totalUseCases |-> totalTestCases,
         totalCovered |-> totalCovered,
         coveragePercentage |-> Percentage(totalCovered, totalTestCases),
         pass |-> CountWhere(m, IsPass),
         fail |-> CountWhere(m, IsFail),
         moduleWiseCoverage |-> ModuleWiseCoverage(m)]

\* ------------------------------------------------ SpecKpi: the statistics
\* generateRTM has resolved with a matrix and the three output surfaces
\* compute their statistics from it.

\* a row as generateRTM builds it: a Covered row carries a test case id and an
\* execution outcome, a Missing row neither
KpiRow(userStoryId, feature, status, testCaseId) ==
    [UserStoryId |-> userStoryId,
     Feature |-> feature,
     ScenarioType |-> "Functional",
     Description |-> feature,
     TestCaseId |-> IF status = "Covered" THEN JsNum(testCaseId) ELSE JsStr(<<>>),
     Status |-> status,
     Priority |-> "Medium",
     Execution |-> IF status = "Covered"
                   THEN (IF testCaseId % 2 = 0 THEN "Pass" ELSE "Fail")
                   ELSE ""]

\* the matrices of one requirement with up to MaxRows rows, Covered or Missing
CoverageMatrices ==
    UNION { { [p \in 1..n |-> KpiRow(1, <<"L", "o", "g", "i", "n">>, statuses[p], 10 + p)] :
                statuses \in [1..n -> {"Covered", "Missing"}] } :
            n \in 0..MaxRows }

\* the feature labels of the requirements 1, 2, ... of a matrix with several
\* features; the second requirement has neither a title nor an area path
ModuleLabels == <<<<"P", "o", "r", "t", "a", "l">>, <<>>, <<"B", "i", "l", "l", "i", "n", "g">>, <<"S", "e", "a", "r", "c", "h">>, <<"A", "u", "d", "i", "t">>, <<"E", "x", "p", "o", "r", "t">>, <<"A", "d", "m", "i", "n">>, <<"R", "e", "p", "o", "r", "t", "s">>, <<"L", "o", "g", "i", "n">>>>

\* the rows of one requirement: all covered, none covered, or half of them
BlockKinds == {"covered", "missing", "half"}
Block(userStoryId, kind) ==
    LET feature == ModuleLabels[userStoryId]
    IN  CASE kind = "covered" -> << KpiRow(userStoryId, feature, "Covered", 10 * userStoryId) >>
          [] kind = "missing" -> << KpiRow(userStoryId, feature, "Missing", 0) >>
          [] OTHER -> << KpiRow(userStoryId, feature, "Covered", 10 * userStoryId + 1),
                         KpiRow(userStoryId, feature, "Missing", 0) >>

RECURSIVE Blocks(_, _)
Blocks(kinds, j) ==
    IF j > Len(kinds) THEN <<>> ELSE Block(j, kinds[j]) \o Blocks(kinds, j + 1)

\* the matrices of up to MaxModules requirements, one block of rows each
ModuleMatrices ==
    UNION { { Blocks(kinds, 1) : kinds \in [1..k -> BlockKinds] } : k \in 0..MaxModules }

NoStatistics == [report |-> NoResponse, download |-> NoResponse, excel |-> NoResponse]

InitKpi ==
    /\ list = <<>>
    /\ limit = DefaultLimit
    /\ cursor = 0
    /\ workers = <<>>
    /\ promise = "fulfilled"
    /\ started = <<>>
    /\ finished = <<>>
    /\ threw = {}
    /\ tasks = <<>>
    /\ rtmData \in CoverageMatrices \cup ModuleMatrices
    /\ rtmMeta = <<>>
    /\ reachable = TRUE
    /\ firstRtm = <<>>
    /\ request = NoRequest
    /\ response = NoStatistics
    /\ ServerIdle

\* GET /rtm-report, after generateRTM: the summary
RtmReport ==
    /\ response.report = NoResponse
    /\ response' = [response EXCEPT !.report = RtmReportSummary(rtmData)]
    /\ UNCHANGED <<generatorVars, firstRtm, request, serverVars>>

\* GET /rtm-download, after generateRTM: the KPI data
RtmDownload ==
    /\ response.download = NoResponse
    /\ response' = [response EXCEPT !.download = RtmDownloadKpi(rtmData)]
    /\ UNCHANGED <<generatorVars, firstRtm, request, serverVars>>

\* exportToExcel(rtmData): the KPI sheet
ExportToExcel ==
    /\ response.excel = NoResponse
    /\ response' = [response EXCEPT !.excel = ExcelKpi(rtmData)]
    /\ UNCHANGED <<generatorVars, firstRtm, request, serverVars>>

NextKpi ==
    \/ RtmReport
    \/ RtmDownload
    \/ ExportToExcel

SpecKpi == InitKpi /\ [][NextKpi]_vars
\* =================================================================
\* fetchUserStoriesBySprint(sprintName)
\* =================================================================
\* the iterations of the team, as GET .../work/teamsettings/iterations lists
\* them: two names differ in case only, one iteration has no path
Iteration(id, name, path) == [id |-> id, name |-> name, path |-> path]
Iterations ==
    << Iteration(40, JsStr(<<"S", "p", "r", "i", "n", "t", " ", "4", "0">>), <<"P", "r", "o", "j", "\\", "S", "p", "r", "i", "n", "t", " ", "4", "0">>),
       Iteration(41, JsStr(<<"S", "p", "r", "i", "n", "t", " ", "4", "1">>), <<"P", "r", "o", "j", "\\", "S", "p", "r", "i", "n", "t", " ", "4", "1">>),
       Iteration(42, JsStr(<<"S", "P", "R", "I", "N", "T", " ", "4", "2">>), <<>>),
       Iteration(43, JsStr(<<"S", "p", "r", "i", "n", "t", " ", "4", "3">>), <<"P", "r", "o", "j", "\\", "S", "p", "r", "i", "n", "t", " ", "4", "3">>),
       Iteration(44, JsStr(<<"s", "p", "r", "i", "n", "t", " ", "4", "0">>), <<"P", "r", "o", "j", "\\", "O", "l", "d", "\\", "s", "p", "r", "i", "n", "t", " ", "4", "0">>) >>

\* the same list followed by an iteration the backend sent without a name
IterationsWithNameless == Append(Iterations, Iteration(45, JsUndef, <<"P", "r", "o", "j", "\\", "D", "r", "a", "f", "t">>))

\* the user stories the WIQL query finds under an iteration path, ORDER BY
\* [System.Id]; a path the backend does not know makes the query fail
StoriesUnder ==
    (<<"P", "r", "o", "j", "\\", "S", "p", "r", "i", "n", "t", " ", "4", "0">> :> <<1, 2, 7>>)
 @@ (<<"P", "r", "o", "j", "\\", "S", "p", "r", "i", "n", "t", " ", "4", "1">> :> <<>>)
 @@ (<<"S", "P", "R", "I", "N", "T", " ", "4", "2">> :> <<3>>)
 @@ (<<"P", "r", "o", "j", "\\", "S", "p", "r", "i", "n", "t", " ", "4", "3">> :> <<4, 8>>)
 @@ (<<"P", "r", "o", "j", "\\", "O", "l", "d", "\\", "s", "p", "r", "i", "n", "t", " ", "4", "0">> :> <<5>>)

\* makeApiRequest(wiqlUrl, 'POST', wiqlQuery): queryResult, or null
WiqlRequest(path, up) ==
    IF up /\ path \in DOMAIN StoriesUnder
    THEN [ok |-> TRUE, workItems |-> StoriesUnder[path]]
    ELSE Null

\* The mutant of FindSprint: the names are compared as they are
RECURSIVE FindSprintCaseSensitive(_, _)
FindSprintCaseSensitive(iterations, sprintName) ==
    IF iterations = <<>> THEN [threw |-> FALSE, found |-> FALSE]
    ELSE IF Head(iterations).name.k # "string" THEN [threw |-> TRUE, found |-> FALSE]
    ELSE IF Head(iterations).name.s = sprintName
    THEN [threw |-> FALSE, found |-> TRUE, sprint |-> Head(iterations)]
    ELSE FindSprintCaseSensitive(Tail(iterations), sprintName)

\* iterationsData.value.find(iteration =>
\*     iteration.name.toLowerCase() === sprintName.toLowerCase()):
\* the first match; reading toLowerCase of a missing name throws
RECURSIVE FindSprint(_, _)
FindSprint(iterations, sprintName) ==
    IF iterations = <<>> THEN [threw |-> FALSE, found |-> FALSE]
    ELSE IF Head(iterations).name.k # "string" THEN [threw |-> TRUE, found |-> FALSE]
    ELSE IF ToLowerCase(Head(iterations).name.s) = ToLowerCase(sprintName)
    THEN [threw |-> FALSE, found |-> TRUE, sprint |-> Head(iterations)]
    ELSE FindSprint(Tail(iterations), sprintName)

\* sprint.path || sprint.name, the path the query names
QueryPath(sprint) == IF sprint.path # <<>> THEN sprint.path ELSE sprint.name.s

\* fetchUserStoriesBySprint has returned ids; heard is the history of what
\* the backend answered to its requests
SprintReturn(ids, heard) == [status |-> "returned", value |-> ids, heard |-> heard]

\* fetchUserStoriesBySprint after the iterations request answered
\* iterationsData: [] when it failed, carries no value, the find throws or
\* finds nothing; otherwise the WIQL query is sent
AfterIterations(sprintName, iterationsData) ==
    IF ~iterationsData.ok THEN SprintReturn(<<>>, <<iterationsData>>)
    ELSE IF ~iterationsData.hasValue THEN SprintReturn(<<>>, <<iterationsData>>)
    ELSE LET r == FindSprint(iterationsData.value, sprintName)
         IN  IF r.threw \/ ~r.found THEN SprintReturn(<<>>, <<iterationsData>>)
             ELSE [status |-> "pending", await |-> "wiql", sprint |-> r.sprint,
                   heard |-> <<iterationsData>>]

\* fetchUserStoriesBySprint after the WIQL request answered queryResult:
\* queryResult.workItems.map(item => item.id)
AfterWiql(heard, queryResult) ==
    IF ~queryResult.ok THEN SprintReturn(<<>>, Append(heard, queryResult))
    ELSE SprintReturn(queryResult.workItems, Append(heard, queryResult))

\* what the iterations request can be answered with
IterationsAnswers ==
    { Null,
      [ok |-> TRUE, hasValue |-> FALSE],
      [ok |-> TRUE, hasValue |-> TRUE, value |-> Iterations],
      [ok |-> TRUE, hasValue |-> TRUE, value |-> IterationsWithNameless] }

\* ------------------------------------------------ SpecSprint
\* the sprint names asked for, lower case, and the names in three cases
SprintWords == {<<"s", "p", "r", "i", "n", "t", " ", "4", "0">>, <<"s", "p", "r", "i", "n", "t", " ", "4", "1">>, <<"s", "p", "r", "i", "n", "t", " ", "4", "2">>, <<"s", "p", "r", "i", "n", "t", " ", "4", "3">>, <<"s", "p", "r", "i", "n", "t", " ", "4">>, <<"b", "a", "c", "k", "l", "o", "g">>}
SprintNames == { Cased(w, f) : w \in SprintWords, f \in CaseForms }

InitSprint ==
    /\ GeneratorIdle
    /\ firstRtm = <<>>
    /\ request \in { [op |-> "fetchUserStoriesBySprint", sprintName |-> n] : n \in SprintNames }
    /\ response = NoResponse
    /\ ServerIdle

\* fetchUserStoriesBySprint(sprintName) up to the iterations request
FetchUserStoriesBySprintCall ==
    /\ request.op = "fetchUserStoriesBySprint"
    /\ response = NoResponse
    /\ response' = [status |-> "pending", await |-> "iterations"]
    /\ UNCHANGED <<generatorVars, firstRtm, request, serverVars>>

\* the iterations request is answered, or fails
IterationsResponse ==
    /\ response.status = "pending"
    /\ response.await = "iterations"
    /\ \E iterationsData \in IterationsAnswers :
          response' = AfterIterations(request.sprintName, iterationsData)
    /\ UNCHANGED <<generatorVars, firstRtm, request, serverVars>>

\* the WIQL request is answered, or fails
WiqlResponse ==
    /\ response.status = "pending"
    /\ response.await = "wiql"
    /\ \E up \in BOOLEAN :
          response' = AfterWiql(response.heard,
                                WiqlRequest(QueryPath(response.sprint), up))
    /\ UNCHANGED <<generatorVars, firstRtm, request, serverVars>>

NextSprint ==
    \/ FetchUserStoriesBySprintCall
    \/ IterationsResponse
    \/ WiqlResponse

SpecSprint == InitSprint /\ [][NextSprint]_vars
\* =================================================================
\* calculateCoverageTrend(weeks)
\* =================================================================
MaxWeeks == 5

\* [...Array(weeks)].map((_, i) => weeks - i - 1): weeks - 1, ..., 1, 0
WeeksList(weeks) == [k \in 1..weeks |-> weeks - k]

\* the entry the callback pushes for list item i: `Week ${weeks - i}`, with
\* the figures of an empty week or of the matrix generated for its stories
TrendEntry(weeks, i, kind) == [week |-> weeks - i, kind |-> kind]
WeekKinds == {"empty", "computed"}

\* trendData.sort((a, b) => weekA - weekB)
RECURSIVE SortByWeek(_)
SortByWeek(trendData) ==
    IF trendData = <<>> THEN <<>>
    ELSE LET first == CHOOSE p \in DOMAIN trendData :
                          /\ \A q \in DOMAIN trendData : trendData[p].week <= trendData[q].week
                          /\ \A q \in 1..(p - 1) : trendData[q].week # trendData[p].week
         IN  <<trendData[first]>>
             \o SortByWeek(SubSeq(trendData, 1, first - 1)
                           \o SubSeq(trendData, first + 1, Len(trendData)))

InitTrend ==
    /\ \E weeks \in 1..MaxWeeks :
          /\ request = [op |-> "calculateCoverageTrend", weeks |-> weeks]
          /\ list = WeeksList(weeks)
    /\ limit = DefaultLimit
    /\ cursor = 0
    /\ workers = [w \in 1..limit |-> [pc |-> "new", idx |-> 0]]
    /\ promise = "none"
    /\ started = [i \in 1..Len(list) |-> 0]
    /\ finished = [i \in 1..Len(list) |-> 0]
    /\ threw = {}
    /\ tasks = <<>>
    /\ rtmData = <<>>
    /\ rtmMeta = <<>>
    /\ reachable = TRUE
    /\ firstRtm = <<>>
    /\ response = NoResponse
    /\ ServerIdle

\* the callback for list index i ends: whether the week had no user
\* stories, generateRTM resolved or something threw, it has pushed one
\* entry and fulfils; the worker awaiting it runs its next loop segment
WeekSettled(i) ==
    /\ request.op = "calculateCoverageTrend"
    /\ Outstanding(i) > 0
    /\ finished' = [finished EXCEPT ![i] = @ + 1]
    /\ \E kind \in WeekKinds :
          rtmData' = Append(rtmData, TrendEntry(request.weeks, list[i], kind))
    /\ IF Awaiting(i) = {}
       THEN UNCHANGED <<workers, cursor, started>>
       ELSE LET w == CHOOSE x \in Awaiting(i) : TRUE
                r == WorkerRun(cursor, list)
            IN  /\ workers' = [workers EXCEPT ![w] = WorkerAfter(r)]
                /\ cursor' = r.cursor
                /\ started' = Invoke(started, r.calls)
    /\ UNCHANGED <<list, limit, promise, threw, tasks, rtmMeta, reachable, callerVars>>

\* calculateCoverageTrend after `await parallel(...)`: the entries are sorted
\* by week and returned
CoverageTrendReturn ==
    /\ request.op = "calculateCoverageTrend"
    /\ promise = "fulfilled"
    /\ response = NoResponse
    /\ response' = [status |-> "returned", weeks |-> request.weeks,
                    data |-> SortByWeek(rtmData)]
    /\ UNCHANGED <<generatorVars, firstRtm, request, serverVars>>

NextTrend ==
    \/ ParallelCall
    \/ \E i \in DOMAIN started : WeekSettled(i)
    \/ PromiseAllSettle
    \/ CoverageTrendReturn

SpecTrend == InitTrend /\ [][NextTrend]_vars

\* =================================================================
\* The server: the report endpoints
\* =================================================================
\* story_ids.split(',')
RECURSIVE SplitFrom(_, _)
SplitFrom(token, s) ==
    IF s = <<>> THEN <<token>>
    ELSE IF Head(s) = "," THEN <<token>> \o SplitFrom(<<>>, Tail(s))
    ELSE SplitFrom(Append(token, Head(s)), Tail(s))
Split(s) == SplitFrom(<<>>, s)

IsDigit(c) == \E k \in DOMAIN DigitChars : DigitChars[k] = c
DigitValue(c) == (CHOOSE k \in DOMAIN DigitChars : DigitChars[k] = c) - 1

\* the number the leading digits of s spell
RECURSIVE DigitsValue(_, _)
DigitsValue(n, s) ==
    IF s = <<>> \/ ~IsDigit(Head(s)) THEN n
    ELSE DigitsValue(10 * n + DigitValue(Head(s)), Tail(s))

NaN == [nan |-> TRUE, n |-> 0]

\* parseInt(text) of an unsigned text: leading white space is skipped, the
\* leading digits are read, NaN when there is none
ParseInt(text) ==
    LET s == TrimStart(text)
    IN  IF s = <<>> \/ ~IsDigit(Head(s)) THEN NaN
        ELSE [nan |-> FALSE, n |-> DigitsValue(0, s)]

\* story_ids.split(',').map(id => parseInt(id.trim())), which throws at the
\* first id that is not a number
RECURSIVE ParseTokens(_)
ParseTokens(tokens) ==
    IF tokens = <<>> THEN [ok |-> TRUE, ids |-> <<>>]
    ELSE LET parsedId == ParseInt(Trim(Head(tokens)))
             rest == ParseTokens(Tail(tokens))
         IN  IF parsedId.nan \/ ~rest.ok THEN [ok |-> FALSE, ids |-> <<>>]
             ELSE [ok |-> TRUE, ids |-> <<parsedId.n>> \o rest.ids]
ParseStoryIds(story_ids) == ParseTokens(Split(story_ids))

\* the connections stored in the database: up tells whether the backend
\* answers the generator built from the stored url, token and project
Connections ==
    (1 :> [name |-> "main", up |-> TRUE])
 @@ (2 :> [name |-> "stale", up |-> FALSE])

\* database.getConnectionById(id): the row, or null
GetConnectionById(db, id) ==
    IF id \in DOMAIN db.connections
    THEN [ok |-> TRUE, id |-> id, up |-> db.connections[id].up]
    ELSE Null

\* res.status(code).json({ message, details }), or res.json(body): a
\* response that has been sent
NoBody == [kind |-> "none"]
Send(code, message, details) ==
    [status |-> "sent", code |-> code, message |-> message,
     details |-> details, body |-> NoBody]
SendBody(body) ==
    [status |-> "sent", code |-> 200, message |-> "", details |-> "", body |-> body]

\* the messages of the errors getRTMGenerator throws
ConnectionIdRequired == "Connection ID is required when no default connection is available"
ConnectionNotFound == "Connection with ID not found"

\* the catch block an error thrown at stage next of the handler of endpoint
\* lands in: the sprint branch has its own, /health answers 503, the outer
\* catch of the report handlers answers 500
Caught(endpoint, next, details) ==
    IF endpoint = "/health"
    THEN Send(503, "Azure DevOps connection failed", details)
    ELSE IF next = "sprint"
    THEN Send(500, "Failed to fetch user stories for sprint", "")
    ELSE IF endpoint = "/rtm-report"
    THEN Send(500, "Failed to generate RTM report", details)
    ELSE IF endpoint = "/rtm-report/download"
    THEN Send(500, "Failed to generate RTM Excel file", details)
    ELSE Send(500, "Failed to generate RTM KPI data", "")

\* the handler suspended at an await: pc names what it waits for, next what
\* it does with the generator it asked for, ids the user story ids it holds
Await(pc, next, ids) ==
    [status |-> "pending", pc |-> pc, next |-> next, ids |-> ids, sprint |-> Null]

\* `await getRTMGenerator(connection_id)` at stage next of the handler:
\* without a connection id getRTMGenerator throws before it awaits anything,
\* whether or not the default generator exists; otherwise it asks the
\* database for the connection
GetRTMGenerator(endpoint, connection_id, next, ids) ==
    IF connection_id = <<>>
    THEN Caught(endpoint, next, ConnectionIdRequired)
    ELSE Await("getConnection", next, ids)

\* initializeApp: the default generator exists when the three environment
\* variables are set
Envs == [url : BOOLEAN, pat : BOOLEAN, project : BOOLEAN]
InitializeApp(env) ==
    IF env.url /\ env.pat /\ env.project THEN "default" ELSE "undefined"

\* ------------------------------------------------ SpecServer
\* One GET request to a report endpoint of the server after initializeApp,
\* with two connections stored in the database.

\* req.query: a parameter the request does not carry is the empty text
\* (connection_id: the empty tuple)
Get(endpoint, connection_id, story_ids, sprint_name) ==
    [op |-> "GET", endpoint |-> endpoint, connection_id |-> connection_id,
     story_ids |-> story_ids, sprint_name |-> sprint_name]

ConnectionIds == {<<>>, <<1>>, <<2>>, <<9>>}
StoryIdsTexts == {<<>>, <<"2">>, <<"4", ",", " ", "6">>, <<"3", ",", "x">>, <<"8", ",">>, <<"2", ",", "3">>}
SprintNameTexts == {<<>>, <<"s", "p", "r", "i", "n", "t", " ", "4", "2">>, <<"S", "p", "r", "i", "n", "t", " ", "4", "3">>, <<"S", "p", "r", "i", "n", "t", " ", "4", "1">>, <<"b", "a", "c", "k", "l", "o", "g">>}

ReportRequests(endpoint) ==
    { Get(endpoint, c, s, n) : c \in ConnectionIds, s \in StoryIdsTexts, n \in SprintNameTexts }

BadRequest(message) == Send(400, message, "")
NotFound == Send(404, "No user stories found for sprint", "")

\* generateRTM(userStoryIds) up to `await parallel(...)`, called by a handler
StartGenerateRTM(userStoryIds) ==
    LET rs == StartAll(1, limit, 0, userStoryIds)
    IN  /\ list' = userStoryIds
        /\ workers' = [w \in 1..limit |-> WorkerAfter(rs[w])]
        /\ tasks' = [w \in 1..limit |->
                        IF rs[w].idx = 0 THEN NoTask ELSE StartTask(userStoryIds[rs[w].idx])]
        /\ cursor' = rs[limit].cursor
        /\ started' = InvokeAll([i \in 1..Len(userStoryIds) |-> 0], rs)
        /\ finished' = [i \in 1..Len(userStoryIds) |-> 0]
        /\ threw' = {}
        /\ promise' = "pending"
        /\ rtmData' = <<>>
        /\ rtmMeta' = <<>>

\* the handler goes on to after: a response, an await, or the call of
\* generateRTM with the ids it holds
GoOn(after) ==
    /\ response' = after
    /\ IF after.status = "pending" /\ after.pc = "generating"
       THEN StartGenerateRTM(after.ids)
       ELSE UNCHANGED <<list, workers, tasks, cursor, started, finished, threw,
                        promise, rtmData, rtmMeta>>

\* the story_ids branch of a handler, which goes on to after(ids)
WithStoryIds(story_ids, after(_)) ==
    LET parsed == ParseStoryIds(story_ids)
    IN  IF parsed.ok THEN after(parsed.ids)
        ELSE BadRequest("Invalid story_ids format")

\* GET /rtm-report up to its first await: getRTMGenerator is called before
\* the parameters are read
GetRtmReport ==
    /\ request = NoRequest
    /\ \E r \in ReportRequests("/rtm-report") :
          /\ request' = r
          /\ response' =
                IF r.story_ids = <<>> /\ r.sprint_name = <<>>
                THEN BadRequest("Either story_ids or sprint_name parameter is required")
                ELSE GetRTMGenerator(r.endpoint, r.connection_id, "params", <<>>)
    /\ UNCHANGED <<generatorVars, firstRtm, serverVars>>

\* GET /rtm-report/download and GET /rtm-download up to their first await:
\* story_ids is parsed first, then getRTMGenerator is called for the sprint
\* or for generateRTM
DownloadStart(r) ==
    LET Generate(ids) == GetRTMGenerator(r.endpoint, r.connection_id, "generate", ids)
    IN  IF r.story_ids = <<>> /\ r.sprint_name = <<>>
        THEN BadRequest("Either story_ids or sprint_name parameter is required")
        ELSE IF r.story_ids # <<>> THEN WithStoryIds(r.story_ids, Generate)
        ELSE GetRTMGenerator(r.endpoint, r.connection_id, "sprint", <<>>)

GetRtmReportDownload ==
    /\ request = NoRequest
    /\ \E r \in ReportRequests("/rtm-report/download") :
          /\ request' = r
          /\ response' = DownloadStart(r)
    /\ UNCHANGED <<generatorVars, firstRtm, serverVars>>

GetRtmDownload ==
    /\ request = NoRequest
    /\ \E r \in ReportRequests("/rtm-download") :
          /\ request' = r
          /\ response' = DownloadStart(r)
    /\ UNCHANGED <<generatorVars, firstRtm, serverVars>>

\* GET /health up to its first await
GetHealth ==
    /\ request = NoRequest
    /\ \E c \in ConnectionIds :
          /\ request' = Get("/health", c, <<>>, <<>>)
          /\ response' = GetRTMGenerator("/health", c, "test", <<>>)
    /\ UNCHANGED <<generatorVars, firstRtm, serverVars>>

\* what the handler does with the generator getRTMGenerator returned
WithGenerator(r, next, ids) ==
    LET Generate(userStoryIds) == Await("generating", "generate", userStoryIds)
    IN  CASE next = "params" ->
                IF r.story_ids # <<>> THEN WithStoryIds(r.story_ids, Generate)
                ELSE Await("iterations", "sprint", <<>>)
          [] next = "sprint" -> Await("iterations", "sprint", <<>>)
          [] next = "generate" -> Generate(ids)
          [] next = "export" -> Await("exporting", "export", ids)
          [] next = "test" -> Await("testing", "test", <<>>)

\* database.getConnectionById answers getRTMGenerator: a connection that is
\* not stored makes it throw, a stored one becomes the generator the handler
\* goes on with
GetConnectionResponse ==
    /\ response.status = "pending"
    /\ response.pc = "getConnection"
    /\ LET connection == GetConnectionById(database, request.connection_id[1])
       IN  IF ~connection.ok
           THEN /\ GoOn(Caught(request.endpoint, response.next, ConnectionNotFound))
                /\ UNCHANGED reachable
           ELSE /\ GoOn(WithGenerator(request, response.next, response.ids))
                /\ reachable' = connection.up
    /\ UNCHANGED <<limit, firstRtm, request, serverVars>>

\* the handler after fetchUserStoriesBySprint returned userStoryIds
AfterSprint(r, userStoryIds) ==
    IF userStoryIds = <<>> THEN NotFound
    ELSE IF r.endpoint = "/rtm-report" THEN Await("generating", "generate", userStoryIds)
    ELSE GetRTMGenerator(r.endpoint, r.connection_id, "generate", userStoryIds)

\* what the backend answers the iterations request of this generator with
IterationsRequest(up) ==
    IF up THEN [ok |-> TRUE, hasValue |-> TRUE, value |-> Iterations] ELSE Null

\* the iterations request of fetchUserStoriesBySprint is answered, or fails
SprintIterationsResponse ==
    /\ response.status = "pending"
    /\ response.pc = "iterations"
    /\ LET r == AfterIterations(request.sprint_name, IterationsRequest(reachable))
       IN  IF r.status = "returned" THEN GoOn(AfterSprint(request, r.value))
           ELSE GoOn([response EXCEPT !.pc = "wiql", !.sprint = r.sprint])
    /\ UNCHANGED <<limit, reachable, firstRtm, request, serverVars>>

\* the WIQL request of fetchUserStoriesBySprint is answered, or fails
SprintWiqlResponse ==
    /\ response.status = "pending"
    /\ response.pc = "wiql"
    /\ LET r == AfterWiql(<<>>, WiqlRequest(QueryPath(response.sprint), reachable))
       IN  GoOn(AfterSprint(request, r.value))
    /\ UNCHANGED <<limit, reachable, firstRtm, request, serverVars>>

\* generateRTM has settled: /rtm-report and /rtm-download compute their
\* statistics and answer, /rtm-report/download asks for a generator again
GenerateRTMSettled ==
    /\ response.status = "pending"
    /\ response.pc = "generating"
    /\ promise \in {"fulfilled", "rejected"}
    /\ response' =
          IF promise = "rejected" THEN Caught(request.endpoint, "generate", "")
          ELSE IF request.endpoint = "/rtm-report"
          THEN SendBody([kind |-> "report", summary |-> RtmReportSummary(rtmData)])
          ELSE IF request.endpoint = "/rtm-download"
          THEN SendBody([kind |-> "kpi", kpi |-> RtmDownloadKpi(rtmData)])
          ELSE GetRTMGenerator(request.endpoint, request.connection_id, "export", response.ids)
    /\ UNCHANGED <<generatorVars, firstRtm, request, serverVars>>

\* exportToExcel has written the file, which is sent, or has thrown
ExportToExcelSettled ==
    /\ response.status = "pending"
    /\ response.pc = "exporting"
    /\ \E written \in BOOLEAN :
          response' = IF written
                      THEN SendBody([kind |-> "file", kpi |-> ExcelKpi(rtmData)])
                      ELSE Caught(request.endpoint, "export", "")
    /\ UNCHANGED <<generatorVars, firstRtm, request, serverVars>>

\* testConnection has returned, or has thrown
TestConnectionSettled ==
    /\ response.status = "pending"
    /\ response.pc = "testing"
    /\ response' = IF reachable THEN SendBody([kind |-> "healthy"])
                   ELSE Caught("/health", "test", "")
    /\ UNCHANGED <<generatorVars, firstRtm, request, serverVars>>

InitServer ==
    /\ GeneratorIdle
    /\ firstRtm = <<>>
    /\ request = NoRequest
    /\ response = NoResponse
    /\ \E env \in Envs : rtmGenerator = InitializeApp(env)
    /\ database = [connections |-> Connections]

NextServer ==
    \/ GetRtmReport
    \/ GetRtmReportDownload
    \/ GetRtmDownload
    \/ GetHealth
    \/ GetConnectionResponse
    \/ SprintIterationsResponse
    \/ SprintWiqlResponse
    \/ \E w \in DOMAIN workers : UserStoryResponse(w)
    \/ \E w \in DOMAIN workers : RelationsResponse(w)
    \/ \E w \in DOMAIN workers : TestCaseResponse(w)
    \/ PromiseAllSettle
    \/ GenerateRTMSettled
    \/ ExportToExcelSettled
    \/ TestConnectionSettled

SpecServer == InitServer /\ [][NextServer]_vars

\* =================================================================
\* The server: connections and their stored sprints
\* =================================================================
\* the iterations of the projects the backend knows, as
\* GET .../work/teamsettings/iterations lists them
TeamIteration(id, name, startDate, timeFrame) ==
    [id |-> id, name |-> name, startDate |-> startDate, timeFrame |-> timeFrame]
ProjectIterations ==
    ("Proj" :> << TeamIteration("i2", "Sprint 2", 2, "current"),
                  TeamIteration("i1", "Sprint 1", 1, "past"),
                  TeamIteration("i3", "Sprint 3", 3, "future") >>)
 @@ ("Other" :> << TeamIteration("o1", "Sprint 1", 1, "current") >>)
 @@ ("Empty" :> << >>)

\* the backend accepts one organisation url and one token
ValidCredentials(url, pat, project) ==
    url = "org" /\ pat = "pat" /\ project \in DOMAIN ProjectIterations

\* makeApiRequest(iterationsUrl) of a generator built from url, pat and
\* project: iterationsData, or null when the request fails
TeamIterationsRequest(url, pat, project, up) ==
    IF up /\ ValidCredentials(url, pat, project)
    THEN [ok |-> TRUE, value |-> ProjectIterations[project]]
    ELSE Null

\* iterationsData.value.reduce(...): the iterations that are not future
RECURSIVE NotFuture(_)
NotFuture(iterations) ==
    IF iterations = <<>> THEN <<>>
    ELSE (IF Head(iterations).timeFrame = "future" THEN <<>> ELSE <<Head(iterations)>>)
         \o NotFuture(Tail(iterations))

\* fetchAllSprints after its request: [] when the request failed, it never
\* throws
FetchAllSprints(iterationsData) ==
    IF ~iterationsData.ok THEN [threw |-> FALSE, sprints |-> <<>>]
    ELSE [threw |-> FALSE, sprints |-> NotFuture(iterationsData.value)]

\* ---------------------------------------------------------- Database
\* the tables: connections by id (name UNIQUE, id AUTOINCREMENT), sprints
\* by id (PRIMARY KEY over all connections)
EmptyDatabase == [connections |-> <<>>, sprints |-> <<>>, lastID |-> 0]

ConnectionNames(db) == { db.connections[id].name : id \in DOMAIN db.connections }

AlreadyExists == "Connection with name already exists"

\* database.addConnection(connection): rejects when the name is stored,
\* otherwise inserts the row under the next id
AddConnection(db, connection) ==
    IF connection.name \in ConnectionNames(db)
    THEN [ok |-> FALSE, id |-> 0, db |-> db]
    ELSE LET id == db.lastID + 1
         IN  [ok |-> TRUE, id |-> id,
              db |-> [db EXCEPT !.connections = @ @@ (id :> connection), !.lastID = id]]

\* the rows of the sprints table that belong to connectionId / to others
SprintIdsOf(db, connectionId) ==
    { s \in DOMAIN db.sprints : db.sprints[s].connection_id = connectionId }

Restrict(f, S) == [x \in S |-> f[x]]

\* DELETE FROM sprints WHERE connection_id = ?
DeleteSprints(db, connectionId) ==
    [db EXCEPT !.sprints = Restrict(@, DOMAIN @ \ SprintIdsOf(db, connectionId))]

SprintRow(connectionId, sprint) ==
    [connection_id |-> connectionId, name |-> sprint.name, startDate |-> sprint.startDate]

\* insertSprint(index): one INSERT after the other; an INSERT whose id is
\* stored fails, is counted and the next one runs
RECURSIVE InsertSprints(_, _, _)
InsertSprints(db, connectionId, sprints) ==
    IF sprints = <<>> THEN [errors |-> 0, db |-> db]
    ELSE LET sprint == Head(sprints)
         IN  IF sprint.id \in DOMAIN db.sprints
             THEN LET rest == InsertSprints(db, connectionId, Tail(sprints))
                  IN  [rest EXCEPT !.errors = @ + 1]
             ELSE InsertSprints(
                      [db EXCEPT !.sprints = @ @@ (sprint.id :> SprintRow(connectionId, sprint))],
                      connectionId, Tail(sprints))

\* database.storeSprints(connectionId, sprints): the stored sprints of the
\* connection are deleted, then the new ones inserted; rejects when an
\* INSERT failed, with what the others inserted left in the table
StoreSprints(db, connectionId, sprints) ==
    LET r == InsertSprints(DeleteSprints(db, connectionId), connectionId, sprints)
    IN  [ok |-> r.errors = 0, db |-> r.db]

\* ORDER BY start_date ASC over the rows ids of the table
RECURSIVE OrderByStartDate(_, _)
OrderByStartDate(table, ids) ==
    IF ids = {} THEN <<>>
    ELSE LET first == CHOOSE s \in ids :
                          \A t \in ids : table[s].startDate <= table[t].startDate
         IN  <<[id |-> first, name |-> table[first].name,
                startDate |-> table[first].startDate]>>
             \o OrderByStartDate(table, ids \ {first})

\* database.getSprintsByConnectionId(connectionId)
GetSprintsByConnectionId(db, connectionId) ==
    OrderByStartDate(db.sprints, SprintIdsOf(db, connectionId))

\* what a response carries of a sprint list fetchAllSprints returned
RECURSIVE AsRows(_)
AsRows(sprints) ==
    IF sprints = <<>> THEN <<>>
    ELSE <<[id |-> Head(sprints).id, name |-> Head(sprints).name,
            startDate |-> Head(sprints).startDate]>> \o AsRows(Tail(sprints))

\* ------------------------------------------------ SpecConnections
\* POST /connections and GET /sprints, one request after the other, against
\* a database that starts empty.  request.before is the history of what was
\* stored when the request arrived, request.heard of whether the backend
\* answered the requests sent to it since.
MaxRequests == 3

Body(name, url, pat, project) ==
    [name |-> name, azure_devops_org_url |-> url, azure_devops_pat |-> pat,
     azure_devops_project |-> project]

Bodies ==
    { Body(n, "org", p, pr) : n \in {"main", "second"}, p \in {"pat", "expired"},
                               pr \in {"Proj", "Other", "Empty"} }
    \cup { Body("", "org", "pat", "Proj"), Body("main", "", "pat", "Proj"),
           Body("main", "org", "", "Proj"), Body("main", "org", "pat", "") }

SprintsConnectionIds == {<<>>, <<1>>, <<2>>, <<3>>}
RefreshTexts == {"", "true", "false"}

\* the handler suspended at the await pc, holding the sprints fetched and
\* the id of the connection they are for
Wait(pc, sprints, id) ==
    [status |-> "pending", pc |-> pc, sprints |-> sprints, id |-> id]

Created(id, sprints) ==
    [status |-> "sent", code |-> 201, message |-> "Connection created successfully",
     details |-> "",
     body |-> [kind |-> "connection", id |-> id, sprints_count |-> Len(sprints)]]

ConnectionTestFailed == "Request failed"
InsertFailed == "Failed to insert sprints"

\* the catch block an error of POST /connections lands in: every statement
\* after the validation is inside the inner try, whose catch answers 400;
\* the outer catch answers 409 for 'already exists' and 500 otherwise
PostCaught(where, message) ==
    IF where = "inner" THEN Send(400, "Connection Test Failed", message)
    ELSE IF message = AlreadyExists THEN Send(409, "Conflict", message)
    ELSE Send(500, "Failed to create connection", "")

\* addConnection is awaited inside the inner try
AddConnectionCaught(message) == PostCaught("inner", message)

\* storeSprints is awaited inside the inner try
StoreSprintsCaught(message) == PostCaught("inner", message)

\* the server takes the next request when the last one has been answered
Arrives ==
    /\ response.status \in {"none", "sent"}
    /\ (IF request = NoRequest THEN 0 ELSE request.seq) < MaxRequests

NextSeq == IF request = NoRequest THEN 1 ELSE request.seq + 1

\* POST /connections up to `await testGenerator.testConnection()`
PostConnections ==
    /\ Arrives
    /\ \E body \in Bodies :
          /\ request' = [op |-> "POST", endpoint |-> "/connections", body |-> body,
                         seq |-> NextSeq, before |-> database, heard |-> <<>>]
          /\ response' =
                IF \/ body.name = "" \/ body.azure_devops_org_url = ""
                   \/ body.azure_devops_pat = "" \/ body.azure_devops_project = ""
                THEN BadRequest("Missing required fields")
                ELSE Wait("testConnection", <<>>, 0)
    /\ UNCHANGED <<generatorVars, firstRtm, serverVars>>

\* testConnection returns, or rethrows the error of its request
PostTestConnectionSettled ==
    /\ request.op = "POST"
    /\ response.status = "pending"
    /\ response.pc = "testConnection"
    /\ \E up \in BOOLEAN :
          LET answered == up /\ ValidCredentials(request.body.azure_devops_org_url,
                                                 request.body.azure_devops_pat,
                                                 request.body.azure_devops_project)
          IN  /\ response' = IF answered THEN Wait("fetchAllSprints", <<>>, 0)
                              ELSE PostCaught("inner", ConnectionTestFailed)
              /\ request' = [request EXCEPT !.heard = Append(@, answered)]
    /\ UNCHANGED <<generatorVars, firstRtm, serverVars>>

\* fetchAllSprints returns the sprints of the new connection
PostFetchAllSprintsSettled ==
    /\ request.op = "POST"
    /\ response.status = "pending"
    /\ response.pc = "fetchAllSprints"
    /\ \E up \in BOOLEAN :
          LET iterationsData ==
                  TeamIterationsRequest(request.body.azure_devops_org_url,
                                        request.body.azure_devops_pat,
                                        request.body.azure_devops_project, up)
              r == FetchAllSprints(iterationsData)
          IN  /\ response' = IF r.threw THEN PostCaught("inner", ConnectionTestFailed)
                              ELSE Wait("addConnection", r.sprints, 0)
              /\ request' = [request EXCEPT !.heard = Append(@, iterationsData.ok)]
    /\ UNCHANGED <<generatorVars, firstRtm, serverVars>>

\* database.addConnection settles: the connection is stored, and its
\* sprints are stored next when there are any
AddConnectionSettled ==
    /\ request.op = "POST"
    /\ response.status = "pending"
    /\ response.pc = "addConnection"
    /\ LET r == AddConnection(database, request.body)
       IN  /\ database' = r.db
           /\ response' =
                 IF ~r.ok THEN AddConnectionCaught(AlreadyExists)
                 ELSE IF Len(response.sprints) > 0
                 THEN Wait("storeSprints", response.sprints, r.id)
                 ELSE Created(r.id, response.sprints)
    /\ UNCHANGED <<generatorVars, firstRtm, request, rtmGenerator>>

\* database.storeSprints of POST /connections settles
PostStoreSprintsSettled ==
    /\ request.op = "POST"
    /\ response.status = "pending"
    /\ response.pc = "storeSprints"
    /\ LET r == StoreSprints(database, response.id, response.sprints)
       IN  /\ database' = r.db
           /\ response' = IF r.ok THEN Created(response.id, response.sprints)
                          ELSE StoreSprintsCaught(InsertFailed)
    /\ UNCHANGED <<generatorVars, firstRtm, request, rtmGenerator>>

\* GET /sprints up to its first await
GetSprints ==
    /\ Arrives
    /\ \E c \in SprintsConnectionIds, refresh \in RefreshTexts :
          /\ request' = [op |-> "GET", endpoint |-> "/sprints", connection_id |-> c,
                         refresh |-> refresh, seq |-> NextSeq, before |-> database, heard |-> <<>>]
          /\ response' =
                IF c = <<>>
                THEN BadRequest("connection_id query parameter is required")
                ELSE IF refresh = "true" THEN Wait("getConnection", <<>>, c[1])
                ELSE Wait("getSprints", <<>>, c[1])
    /\ UNCHANGED <<generatorVars, firstRtm, serverVars>>

\* getRTMGenerator of the refresh settles: it throws when the connection is
\* not stored, which the refresh catch absorbs
SprintsGetConnectionSettled ==
    /\ request.op = "GET"
    /\ response.status = "pending"
    /\ response.pc = "getConnection"
    /\ response' = IF response.id \in DOMAIN database.connections
                   THEN Wait("fetchAllSprints", <<>>, response.id)
                   ELSE Wait("getSprints", <<>>, response.id)
    /\ UNCHANGED <<generatorVars, firstRtm, request, serverVars>>

\* fetchAllSprints of the refresh returns freshSprints
SprintsFetchAllSprintsSettled ==
    /\ request.op = "GET"
    /\ response.status = "pending"
    /\ response.pc = "fetchAllSprints"
    /\ \E up \in BOOLEAN :
          LET connection == database.connections[response.id]
              iterationsData ==
                  TeamIterationsRequest(connection.azure_devops_org_url,
                                        connection.azure_devops_pat,
                                        connection.azure_devops_project, up)
              r == FetchAllSprints(iterationsData)
          IN  /\ response' = IF r.threw THEN Wait("getSprints", <<>>, response.id)
                              ELSE Wait("storeSprints", r.sprints, response.id)
              /\ request' = [request EXCEPT !.heard = Append(@, iterationsData.ok)]
    /\ UNCHANGED <<generatorVars, firstRtm, serverVars>>

\* database.storeSprints of the refresh settles: the fresh sprints are
\* answered, or the refresh catch absorbs the rejection
SprintsStoreSprintsSettled ==
    /\ request.op = "GET"
    /\ response.status = "pending"
    /\ response.pc = "storeSprints"
    /\ LET r == StoreSprints(database, response.id, response.sprints)
       IN  /\ database' = r.db
           /\ response' =
                 IF r.ok
                 THEN SendBody([kind |-> "sprints", source |-> "azure_devops_fresh",
                                data |-> AsRows(response.sprints)])
                 ELSE Wait("getSprints", <<>>, response.id)
    /\ UNCHANGED <<generatorVars, firstRtm, request, rtmGenerator>>

\* database.getSprintsByConnectionId settles
GetSprintsSettled ==
    /\ request.op = "GET"
    /\ response.status = "pending"
    /\ response.pc = "getSprints"
    /\ LET sprints == GetSprintsByConnectionId(database, response.id)
       IN  response' =
              IF Len(sprints) = 0
              THEN Send(404, "No sprints found for this connection", "")
              ELSE SendBody([kind |-> "sprints", source |-> "database", data |-> sprints])
    /\ UNCHANGED <<generatorVars, firstRtm, request, serverVars>>

InitConnections ==
    /\ GeneratorIdle
    /\ firstRtm = <<>>
    /\ request = NoRequest
    /\ response = NoResponse
    /\ rtmGenerator = "undefined"
    /\ database = EmptyDatabase

NextConnections ==
    \/ PostConnections
    \/ PostTestConnectionSettled
    \/ PostFetchAllSprintsSettled
    \/ AddConnectionSettled
    \/ PostStoreSprintsSettled
    \/ GetSprints
    \/ SprintsGetConnectionSettled
    \/ SprintsFetchAllSprintsSettled
    \/ SprintsStoreSprintsSettled
    \/ GetSprintsSettled

SpecConnections == InitConnections /\ [][NextConnections]_vars

\* =================================================================
\* Properties
\* =================================================================
\* how often x occurs in the sequence s
Count(s, x) == Cardinality({ p \in DOMAIN s : s[p] = x })

\* the sequences a and b hold the same elements, each as often
SameBag(a, b) ==
    /\ Len(a) = Len(b)
    /\ \A p \in DOMAIN a : Count(a, a[p]) = Count(b, a[p])

RECURSIVE Pick(_, _, _)
Pick(s, keep, p) ==
    IF p > Len(s) THEN <<>>
    ELSE (IF p \in keep THEN <<s[p]>> ELSE <<>>) \o Pick(s, keep, p + 1)

\* the rows of rtmData pushed by the task for list index i, in matrix order
TaskRows(i) == Pick(rtmData, { p \in DOMAIN rtmMeta : rtmMeta[p].task = i }, 1)

\* of those, the rows pushed for criterion acNo
TaskCriterionRows(i, acNo) ==
    Pick(rtmData,
         { p \in DOMAIN rtmMeta : rtmMeta[p].task = i /\ rtmMeta[p].ac = acNo }, 1)

\* the task for list index i has returned
Returned(i) == finished[i] = 1 /\ i \notin threw

\* f[x] = Op(x) for the x of S, as a table
RECURSIVE TableOf(_, _)
TableOf(Op(_), S) ==
    IF S = {} THEN <<>>
    ELSE LET x == CHOOSE y \in S : TRUE
         IN  (x :> Op(x)) @@ TableOf(Op, S \ {x})

\* what the task for userStoryId ends with when it runs with no other around
AloneUp(userStoryId) == RunTask(StartTask(userStoryId), TRUE)
AloneDown(userStoryId) == RunTask(StartTask(userStoryId), FALSE)
AloneTable == <<TableOf(AloneUp, RequestIds), TableOf(AloneDown, RequestIds)>>
Alone(userStoryId) == AloneTable[IF reachable THEN 1 ELSE 2][userStoryId]
RowsOnly(tagged) ==
    IF tagged = <<>> THEN <<>> ELSE [j \in DOMAIN tagged |-> tagged[j].row]
AloneRows(userStoryId) == RowsOnly(Alone(userStoryId).rows)

RECURSIVE ConcatAlone(_)
ConcatAlone(indices) ==
    IF indices = <<>> THEN <<>>
    ELSE AloneRows(list[Head(indices)]) \o ConcatAlone(Tail(indices))

RECURSIVE IndexSeq(_, _)
IndexSeq(S, p) ==
    IF p > Len(list) THEN <<>>
    ELSE (IF p \in S THEN <<p>> ELSE <<>>) \o IndexSeq(S, p + 1)

\* the user story fetchUserStory returns for a list index (Null: skipped)
StoryUp(userStoryId) == UserStoryOf(MakeApiRequest(userStoryId, TRUE))
StoryDown(userStoryId) == UserStoryOf(MakeApiRequest(userStoryId, FALSE))
StoryTable == <<TableOf(StoryUp, RequestIds), TableOf(StoryDown, RequestIds)>>
StoryAt(i) == StoryTable[IF reachable THEN 1 ELSE 2][list[i]]

\* the test cases fetchRelatedTestCases returns for a list index
LinkedTestCases(i) == Alone(list[i]).tcs

\* the fetched test cases that refer to criterion acNo, in the order fetched
RECURSIVE Referring(_, _)
Referring(tcs, acNo) ==
    IF tcs = <<>> THEN <<>>
    ELSE (IF Head(tcs).acceptanceCriteria = JsNum(acNo) THEN <<Head(tcs)>> ELSE <<>>)
         \o Referring(Tail(tcs), acNo)

\* ------------------------------------------------------------------ C1
\* C1: at every instant the number of fn invocations that have started and
\* not yet settled is at most limit, and when parallel fulfils over a list
\* of truthy items the number of completions is the length of the list.
C1_InFlightAtMostLimit ==
    /\ InFlightCount <= limit
    /\ (promise = "fulfilled" /\ \A i \in DOMAIN list : Truthy(list[i]))
           => SumOver(finished, DOMAIN finished) = Len(list)

\* the limit is what holds invocations back: limit >= 2 invocations are in
\* flight and an item is still waiting in the iterator
C1_Witness ==
    /\ limit >= 2
    /\ InFlightCount = limit
    /\ cursor < Len(list)
    /\ Truthy(list[Len(list)])

\* ------------------------------------------------------------------ C2
\* C2: the promise of parallel settles only after fn has been invoked
\* exactly once for every element of the list, and no invocation is still
\* in flight when it settles.
C2_SettlesAfterEveryElementOnce ==
    promise \in {"fulfilled", "rejected"} =>
        \A i \in DOMAIN list : started[i] = 1 /\ finished[i] = 1

\* ------------------------------------------------------------------ C3
\* C3: when fn has thrown for one item and nothing is left running, fn has
\* been invoked for every other (truthy) item of the list.
C3_FailureDoesNotStopOthers ==
    ( /\ Cardinality(threw) = 1
      /\ promise \in {"fulfilled", "rejected"}
      /\ InFlightCount = 0 )
        => \A i \in DOMAIN list : Truthy(list[i]) => started[i] >= 1

\* ------------------------------------------------------------------ C4
\* C4: under every interleaving the matrix holds, as a multiset, exactly the
\* rows that each requirement whose task has returned produces when it is
\* processed alone: no row is lost and none is added.
C4_NoRowLost ==
    promise # "none" =>
        SameBag(rtmData, ConcatAlone(IndexSeq({ i \in DOMAIN list : Returned(i) }, 1)))

\* generateRTM has resolved, two tasks have pushed rows and the task of the
\* later id pushed first
C4_Witness ==
    /\ promise = "fulfilled"
    /\ Len(rtmData) >= 4
    /\ rtmMeta[1].task = 2
    /\ rtmMeta[Len(rtmMeta)].task = 1

\* ------------------------------------------------------------------ C5
\* C5: in every row of the matrix, Status is 'Covered' exactly when
\* 'Test Case ID' is present, and Execution is non-empty only when Status
\* is 'Covered'.
C5_CoveredIffTestCaseId ==
    \A p \in DOMAIN rtmData :
        /\ (rtmData[p].Status = "Covered") <=> JsTruthy(rtmData[p].TestCaseId)
        /\ rtmData[p].Execution # "" => rtmData[p].Status = "Covered"

\* the matrix holds a Covered row and a Missing row of a criterion
C5_Witness ==
    /\ \E p \in DOMAIN rtmData : rtmData[p].Status = "Covered"
    /\ \E p \in DOMAIN rtmData : rtmData[p].Status = "Missing" /\ rtmMeta[p].ac > 0

\* ------------------------------------------------------------------ C6
\* C6: a requirement with zero linked test cases produces exactly one row,
\* whatever its acceptance criteria: Status 'Missing', empty Test Case ID and
\* Execution, Description = title, Scenario Type = determineScenarioType of
\* title, description and tags, Priority = mapPriority of its priority.
C6_NoTestCasesOneRow ==
    \A i \in DOMAIN list :
        (Returned(i) /\ StoryAt(i).ok /\ LinkedTestCases(i) = <<>>) =>
            LET us == StoryAt(i)
                rows == TaskRows(i)
            IN  /\ Len(rows) = 1
                /\ rows[1].Status = "Missing"
                /\ rows[1].TestCaseId = JsStr(<<>>)
                /\ rows[1].Execution = ""
                /\ rows[1].Description = us.title
                /\ rows[1].ScenarioType =
                       DetermineScenarioType(us.title, us.description, us.tags)
                /\ rows[1].Priority = MapPriority(us.priority)

\* the task of a requirement without test cases and with two acceptance
\* criteria has returned
C6_Witness ==
    \E i \in DOMAIN list :
        /\ Returned(i) /\ StoryAt(i).ok /\ LinkedTestCases(i) = <<>>
        /\ Cardinality(DOMAIN StoryAt(i).acceptanceCriteria) = 2
        /\ TaskRows(i) # <<>>

\* ------------------------------------------------------------------ C7
\* no fetched test case of list index i refers to one of its criteria
NoneCovered(i) ==
    \A acNo \in DOMAIN StoryAt(i).acceptanceCriteria :
        Referring(LinkedTestCases(i), acNo) = <<>>

\* C7 as claimed: a requirement with N acceptance criteria, none covered,
\* produces exactly N rows, whether or not it has linked test cases.
C7_UncoveredCriteriaNRows_Original ==
    \A i \in DOMAIN list :
        (Returned(i) /\ StoryAt(i).ok /\ NoneCovered(i)) =>
            Len(TaskRows(i)) = Cardinality(DOMAIN StoryAt(i).acceptanceCriteria)

\* C7 as amended: a requirement that has at least one linked test case and N
\* acceptance criteria, none covered, produces exactly N rows, every one of
\* them Missing.
C7_UncoveredCriteriaNRows ==
    \A i \in DOMAIN list :
        (Returned(i) /\ StoryAt(i).ok /\ NoneCovered(i) /\ LinkedTestCases(i) # <<>>) =>
            /\ Len(TaskRows(i)) = Cardinality(DOMAIN StoryAt(i).acceptanceCriteria)
            /\ \A p \in DOMAIN TaskRows(i) : TaskRows(i)[p].Status = "Missing"

\* the task of a requirement with a linked test case and two criteria, none
\* covered, has returned
C7_Witness ==
    \E i \in DOMAIN list :
        /\ Returned(i) /\ StoryAt(i).ok /\ NoneCovered(i)
        /\ LinkedTestCases(i) # <<>>
        /\ Cardinality(DOMAIN StoryAt(i).acceptanceCriteria) = 2

\* ------------------------------------------------------------------ C8
\* C8: for a requirement with at least one linked test case, a criterion no
\* fetched test case refers to yields exactly one Missing row (Functional,
\* Description = criterion text, Medium, no Test Case ID, no Execution), and
\* any other criterion yields exactly one Covered row per fetched test case
\* referring to it, with that test case's id, mapped priority and Pass/Fail
\* derived from its state.
C8_RowsPerCriterion ==
    \A i \in DOMAIN list :
        (Returned(i) /\ StoryAt(i).ok /\ LinkedTestCases(i) # <<>>) =>
            \A acNo \in DOMAIN StoryAt(i).acceptanceCriteria :
                LET refs == Referring(LinkedTestCases(i), acNo)
                    rows == TaskCriterionRows(i, acNo)
                IN  IF refs = <<>>
                    THEN /\ Len(rows) = 1
                         /\ rows[1].Status = "Missing"
                         /\ rows[1].ScenarioType = "Functional"
                         /\ rows[1].Description = StoryAt(i).acceptanceCriteria[acNo]
                         /\ rows[1].Priority = "Medium"
                         /\ rows[1].TestCaseId = JsStr(<<>>)
                         /\ rows[1].Execution = ""
                    ELSE /\ Len(rows) = Len(refs)
                         /\ \A j \in DOMAIN refs :
                                /\ rows[j].Status = "Covered"
                                /\ rows[j].TestCaseId = JsNum(refs[j].id)
                                /\ rows[j].Priority = MapPriority(refs[j].priority)
                                /\ rows[j].Execution =
                                       (IF refs[j].state \in {"Done", "Completed"}
                                        THEN "Pass" ELSE "Fail")

\* the task of a requirement has returned that has a criterion with two
\* test cases and a criterion with none
C8_Witness ==
    \E i \in DOMAIN list :
        /\ Returned(i) /\ StoryAt(i).ok
        /\ \E acNo \in DOMAIN StoryAt(i).acceptanceCriteria :
               Len(Referring(LinkedTestCases(i), acNo)) = 2
        /\ \E acNo \in DOMAIN StoryAt(i).acceptanceCriteria :
               /\ Referring(LinkedTestCases(i), acNo) = <<>>
               /\ Len(TaskCriterionRows(i, acNo)) = 1

\* ------------------------------------------------------------------ C9
\* C9: the rows one task pushed appear in the matrix in ascending criterion
\* number, and the Covered rows of one criterion in the order their test
\* cases were fetched, however the other tasks interleave.
C9_RowsInCriterionOrder ==
    \A p, q \in DOMAIN rtmMeta :
        (p < q /\ rtmMeta[p].task = rtmMeta[q].task) =>
            /\ rtmMeta[p].ac <= rtmMeta[q].ac
            /\ rtmMeta[p].ac = rtmMeta[q].ac => rtmMeta[p].pos < rtmMeta[q].pos

\* two tasks have pushed rows, the later id first; one of them pushed
\* rows of two criteria, a test case fetched first covering the higher one
C9_Witness ==
    /\ Len(rtmMeta) >= 5
    /\ rtmMeta[1].task = 2
    /\ \E p, q \in DOMAIN rtmMeta :
          /\ rtmMeta[p].task = 1 /\ rtmMeta[q].task = 1
          /\ rtmMeta[p].ac < rtmMeta[q].ac
          /\ rtmMeta[p].pos > rtmMeta[q].pos /\ rtmMeta[q].pos > 0

\* ------------------------------------------------------------------ C10
\* the request for work item id fails or answers with another type
Fetchable(id, type) ==
    reachable /\ id \in DOMAIN WorkItems /\ WorkItems[id].type = type

\* the test cases of a requirement when the linked ids that cannot be
\* fetched as a 'Test Case' are left out of its relations
RECURSIVE TestCasesOfGoodLinks(_)
TestCasesOfGoodLinks(rels) ==
    IF rels = <<>> THEN <<>>
    ELSE (IF IsTestRelation(Head(rels)) /\ Fetchable(TestCaseIdOf(Head(rels).url), "Test Case")
          THEN <<TestCaseOf(MakeApiRequest(TestCaseIdOf(Head(rels).url), reachable))>>
          ELSE <<>>) \o TestCasesOfGoodLinks(Tail(rels))

\* the rows of the requested ids when the ids that cannot be fetched as a
\* 'User Story' are left out of the request
RECURSIVE RowsOfGoodIds(_)
RowsOfGoodIds(ids) ==
    IF ids = <<>> THEN <<>>
    ELSE (IF Fetchable(Head(ids), "User Story")
          THEN RowsOnly(Reconcile(Head(ids),
                                  UserStoryOf(MakeApiRequest(Head(ids), reachable)),
                                  TestCasesOfGoodLinks(WorkItems[Head(ids)].relations)).rows)
          ELSE <<>>) \o RowsOfGoodIds(Tail(ids))

\* C10: an id that is not found or is no 'User Story', and a linked id whose
\* fetch fails or is no 'Test Case', is skipped without raising: no task
\* throws, generateRTM does not reject, and when it resolves the matrix holds
\* the rows the request produces with the failing items left out.
C10_FailingItemsSkipped ==
    /\ threw = {}
    /\ \A w \in DOMAIN workers : workers[w].pc # "rejected"
    /\ promise # "rejected"
    /\ promise = "fulfilled" => SameBag(rtmData, RowsOfGoodIds(list))

\* generateRTM has resolved a request that names an id that is no user story
\* and a requirement with a linked id that is no test case, whose rows are
\* in the matrix
C10_Witness ==
    /\ promise = "fulfilled"
    /\ reachable
    /\ \E i \in DOMAIN list : ~StoryAt(i).ok
    /\ \E i \in DOMAIN list :
          /\ StoryAt(i).ok
          /\ \E k \in DOMAIN WorkItems[list[i]].relations :
                /\ IsTestRelation(WorkItems[list[i]].relations[k])
                /\ ~Fetchable(TestCaseIdOf(WorkItems[list[i]].relations[k].url), "Test Case")
          /\ Len(TaskRows(i)) >= 2

Group(m, id) == Pick(m, { p \in DOMAIN m : m[p].UserStoryId = id }, 1)

Recognised(v, numbers, words) ==
    \/ v.k = "number" /\ v.n \in numbers
    \/ v.k = "string" /\ \E n \in numbers : v.s = NumToString(n)
    \/ v.k = "string" /\ \E w \in words, f \in CaseForms : v.s = Cased(w, f)

\* C13: mapPriority returns for every raw priority one of Low, Medium, High:
\* High for 1, 'critical', 'high'; Medium for 2, 'medium', 'normal'; Low for
\* 3, 4, 'low' (numbers also as strings, words in any case); Medium for null,
\* undefined and every other value.
C13_MapPriorityTable ==
    (request.op = "mapPriority" /\ response.status = "returned") =>
        LET v == request.arg
            high == Recognised(v, HighNumbers, HighWords)
            medium == Recognised(v, MediumNumbers, MediumWords)
            low == Recognised(v, LowNumbers, LowWords)
        IN  /\ response.value \in {"Low", "Medium", "High"}
            /\ high => response.value = "High"
            /\ medium => response.value = "Medium"
            /\ low => response.value = "Low"
            /\ ~(high \/ medium \/ low) => response.value = "Medium"

\* mapPriority has returned High for the string 'HIGH'
C13_Witness ==
    /\ request.op = "mapPriority"
    /\ request.arg = JsStr(<<"H", "I", "G", "H">>)
    /\ response.status = "returned"
    /\ response.value = "High"

\* ------------------------------------------------------------------ C14
\* the keyword groups in the order determineScenarioType is said to apply them
GroupOrder == <<"API", "UI", "Integration", "Performance", "Security">>

\* the first group of that order among groups, 'Functional' when there is none
FirstGroup(groups) ==
    IF \E k \in DOMAIN GroupOrder : GroupOrder[k] \in groups
    THEN GroupOrder[CHOOSE k \in DOMAIN GroupOrder :
                        /\ GroupOrder[k] \in groups
                        /\ \A j \in 1..(k - 1) : GroupOrder[j] \notin groups]
    ELSE "Functional"

\* C14: determineScenarioType returns the label of the first group, in the
\* order API, UI, Integration, Performance, Security, that has a keyword in
\* the text 'title description tags' whatever its case, 'Functional' when no
\* group has one, and 'API' when the text holds an API and a UI keyword.
C14_FirstGroupWins ==
    (request.op = "determineScenarioType" /\ response.status = "returned") =>
        /\ response.value = FirstGroup(request.groups)
        /\ {"API", "UI"} \subseteq request.groups => response.value = "API"

\* determineScenarioType has returned for a text with a UI keyword in the
\* title and an API keyword in the description
C14_Witness ==
    /\ request.op = "determineScenarioType"
    /\ request.title = <<"L", "o", "g", "i", "n", " ", "P", "a", "g", "e">>
    /\ request.description = <<"C", "a", "l", "l", "s", " ", "t", "h", "e", " ", "e", "n", "d", "p", "o", "i", "n", "t", " ", "u", "n", "d", "e", "r", " ", "l", "o", "a", "d">>
    /\ response.status = "returned"
    /\ response.value = "API"

AsReportText(percentage) == NumToString(percentage) \o <<".", "0", "%">>

\* C16: once the three surfaces have computed their statistics from one
\* matrix, the coverage percentage of the /rtm-report summary, of the
\* /rtm-download KPI data and of the KPI sheet are the same value, and so
\* are the totals they share.
C16_SurfacesAgree ==
    ( /\ response.report.status = "returned"
      /\ response.download.status = "returned"
      /\ response.excel.status = "returned" ) =>
        /\ response.download.coveragePercentage = response.excel.coveragePercentage
        /\ response.download.totalUseCases = response.excel.totalUseCases
        /\ response.download.totalCovered = response.excel.totalCovered
        /\ response.report.totalUserStories = response.download.totalUserStories
        /\ response.report.coveragePercentage
               = AsReportText(response.download.coveragePercentage)

\* ------------------------------------------------------------------ C17
\* the non-empty feature labels of the matrix
FeaturesOf(m) == { m[p].Feature : p \in DOMAIN m } \ {<<>>}

\* where a feature label first appears in the matrix
FirstAppearance(m, feature) ==
    CHOOSE p \in DOMAIN m :
        m[p].Feature = feature /\ \A q \in 1..(p - 1) : m[q].Feature # feature

\* module a ranks strictly before module b: by coveragePercentage in the
\* given direction, by first appearance when the percentages are equal
RanksBefore(a, b, order) ==
    \/ IF order = "descending" THEN a.coveragePercentage > b.coveragePercentage
       ELSE a.coveragePercentage < b.coveragePercentage
    \/ /\ a.coveragePercentage = b.coveragePercentage
       /\ FirstAppearance(rtmData, a.feature) < FirstAppearance(rtmData, b.feature)

\* ranking is the first min(TopCount, #features) modules in that order
IsRanking(ranking, modules, order) ==
    LET listed == { ranking[k].feature : k \in DOMAIN ranking }
        n == Cardinality(FeaturesOf(rtmData))
    IN  /\ Len(ranking) = IF n < TopCount THEN n ELSE TopCount
        /\ \A k \in DOMAIN ranking :
              \E j \in DOMAIN modules :
                 /\ modules[j].feature = ranking[k].feature
                 /\ modules[j].coveragePercentage = ranking[k].coveragePercentage
                 /\ modules[j].totalUseCases = ranking[k].totalUseCases
                 /\ modules[j].totalUseCases > 0
        /\ \A k \in 1..(Len(ranking) - 1) : RanksBefore(ranking[k], ranking[k + 1], order)
        /\ \A j \in DOMAIN modules :
              modules[j].feature \notin listed =>
                 \A k \in DOMAIN ranking : RanksBefore(ranking[k], modules[j], order)

\* C17: in the /rtm-download summary topPerformingModules is the first
\* min(5, #features) features by descending coveragePercentage and
\* lowPerformingModules the first min(5, #features) by ascending
\* coveragePercentage, features of equal coveragePercentage in the order their
\* label first appears in the matrix; the features ranked are the non-empty
\* labels of the matrix, each with at least one row.
C17_TopAndLowModules ==
    response.download.status = "returned" =>
        LET modules == response.download.moduleWiseCoverage
        IN  /\ { modules[j].feature : j \in DOMAIN modules } = FeaturesOf(rtmData)
            /\ IsRanking(response.download.topPerformingModules, modules, "descending")
            /\ IsRanking(response.download.lowPerformingModules, modules, "ascending")

\* the KPI data of a matrix with six features: the feature appearing last is
\* among the five top performing, two of equal percentage are listed, and a
\* feature is left out of each list
C17_Witness ==
    /\ response.download.status = "returned"
    /\ Cardinality(FeaturesOf(rtmData)) = 6
    /\ LET top == response.download.topPerformingModules
           low == response.download.lowPerformingModules
       IN  /\ Len(top) = 5 /\ Len(low) = 5
           /\ \E k \in DOMAIN top : top[k].feature = rtmData[Len(rtmData)].Feature
           /\ \E k \in 1..4 : top[k].coveragePercentage = top[k + 1].coveragePercentage
           /\ top[1].coveragePercentage > top[5].coveragePercentage
           /\ top[1].feature # rtmData[1].Feature

\* ------------------------------------------------------------------ C18
\* C18 as claimed: the Feature of every row is the last segment of the area
\* path of its requirement, and the title when it has no area path.
C18_FeatureIsAreaSegment_Original ==
    \A p \in DOMAIN rtmData :
        LET f == WorkItems[rtmData[p].UserStoryId]
        IN  rtmData[p].Feature =
                IF f.areaPath # <<>> THEN LastSegment(f.areaPath) ELSE f.title

\* C18 as amended: the Feature of every row is the title of its requirement;
\* when the title is empty, the single Missing row of a requirement without
\* test cases carries the last segment of the area path, and a per-criterion
\* row carries the empty title.
C18_FeatureIsTitle ==
    \A p \in DOMAIN rtmData :
        LET f == WorkItems[rtmData[p].UserStoryId]
        IN  rtmData[p].Feature =
                IF f.title # <<>> THEN f.title
                ELSE IF rtmMeta[p].ac = 0 THEN LastSegment(f.areaPath)
                ELSE <<>>

\* the matrix holds the single Missing row of a requirement with a title and
\* an area path (labelled by its title) and a per-criterion row of a
\* requirement with an area path and no title (without label)
C18_Witness ==
    /\ \E p \in DOMAIN rtmData :
          /\ rtmMeta[p].ac = 0
          /\ WorkItems[rtmData[p].UserStoryId].areaPath # <<>>
          /\ rtmData[p].Feature = <<"E", "x", "p", "o", "r", "t", " ", "r", "e", "p", "o", "r", "t">>
    /\ \E p \in DOMAIN rtmData :
          /\ rtmMeta[p].ac > 0
          /\ WorkItems[rtmData[p].UserStoryId].areaPath # <<>>
          /\ rtmData[p].Feature = <<>>

\* ------------------------------------------------------------------ C19
\* the names a and b are one sprint word, each written in some case
SameIgnoringCase(a, b) ==
    \E w \in SprintWords : \E f, g \in CaseForms : a = Cased(w, f) /\ b = Cased(w, g)

\* the positions of the listed iterations whose name is sprintName in some case
MatchingIterations(sprintName) ==
    { k \in DOMAIN Iterations : SameIgnoringCase(Iterations[k].name.s, sprintName) }

\* every request so far was answered, and with a list of iterations
AllAnswered(heard) ==
    \A k \in DOMAIN heard : heard[k].ok /\ (k = 1 => heard[k].hasValue)

\* C19: fetchUserStoriesBySprint never raises; when its requests are answered
\* and an iteration carries the sprint name in whatever case, it returns the
\* user stories of the first such iteration in the order the backend lists
\* them; when no iteration matches or a request fails it returns the empty
\* list.
C19_SprintByNameIgnoringCase ==
    /\ response.status \in {"none", "pending", "returned"}
    /\ (request.op = "fetchUserStoriesBySprint" /\ response.status = "returned") =>
          LET matching == MatchingIterations(request.sprintName)
          IN  IF matching # {} /\ Len(response.heard) = 2 /\ AllAnswered(response.heard)
              THEN LET first == CHOOSE k \in matching : \A j \in matching : k <= j
                   IN  response.value =
                           StoriesUnder[IF Iterations[first].path # <<>>
                                        THEN Iterations[first].path
                                        ELSE Iterations[first].name.s]
              ELSE response.value = <<>>

\* fetchUserStoriesBySprint('SPRINT 40') has returned the three user stories
\* of the iteration named 'Sprint 40'
C19_Witness ==
    /\ request.op = "fetchUserStoriesBySprint"
    /\ request.sprintName = <<"S", "P", "R", "I", "N", "T", " ", "4", "0">>
    /\ response.status = "returned"
    /\ response.value = <<1, 2, 7>>

\* C20: on the report endpoints connection_id is optional when a default
\* connection exists: a request without connection_id that reaches a server
\* whose default generator was initialized from the environment variables is
\* never answered with the error 'Connection ID is required when no default
\* connection is available'.
C20_DefaultServesWithoutConnectionId ==
    (/\ request.op = "GET"
     /\ request.connection_id = <<>>
     /\ rtmGenerator = "default"
     /\ response.status = "sent")
    => response.details # ConnectionIdRequired

\* the history of a POST /connections request says its credentials were
\* valid and the backend answered every request sent to it
TestedAndFetched ==
    /\ ValidCredentials(request.body.azure_devops_org_url,
                        request.body.azure_devops_pat,
                        request.body.azure_devops_project)
    /\ request.heard = <<TRUE, TRUE>>

\* C21: POST /connections with a name that is already stored, and valid,
\* reachable credentials, is answered with 409 Conflict and stores no second
\* connection.
C21_DuplicateNameConflict ==
    (/\ request.op = "POST"
     /\ response.status = "sent"
     /\ request.body.name \in ConnectionNames(request.before)
     /\ TestedAndFetched)
    => /\ response.code = 409
       /\ database = request.before

\* what GET /sprints answers from the stored sprints of db
FromDatabase(db, connectionId) ==
    LET sprints == GetSprintsByConnectionId(db, connectionId)
    IN  IF Len(sprints) = 0 THEN Send(404, "No sprints found for this connection", "")
        ELSE SendBody([kind |-> "sprints", source |-> "database", data |-> sprints])

\* C22: GET /sprints?refresh=true: when the refresh from the backend fails,
\* the response carries the sprints stored before the request and the stored
\* sprints are unchanged.
C22_FailedRefreshFallsBack ==
    (/\ request.op = "GET"
     /\ request.endpoint = "/sprints"
     /\ request.refresh = "true"
     /\ response.status = "sent"
     /\ request.heard = <<FALSE>>)
    => /\ database = request.before
       /\ response = FromDatabase(request.before, request.connection_id[1])

\* C28: POST /connections changes the stored state only on success: when
\* the response status is not 201, the stored connections and sprints are
\* what they were before the request.
C28_PostChangesOnlyOnSuccess ==
    (/\ request.op = "POST"
     /\ response.status = "sent"
     /\ response.code # 201)
    => database = request.before

\* ------------------------------------------------------------------ C23
\* the user story ids in the rows of a matrix
IdsIn(m) == { m[p].UserStoryId : p \in DOMAIN m }

\* C23: a requirement that has at least one linked test case but no
\* acceptance criterion contributes zero rows to the matrix: its id appears
\* neither in the matrix nor in totalUserStories.
C23_NoCriteriaNoRows ==
    \A i \in DOMAIN list :
        (/\ Returned(i) /\ StoryAt(i).ok
         /\ LinkedTestCases(i) # <<>>
         /\ DOMAIN StoryAt(i).acceptanceCriteria = {}) =>
            /\ TaskRows(i) = <<>>
            /\ promise = "fulfilled" =>
                  /\ list[i] \notin IdsIn(rtmData)
                  /\ RtmReportSummary(rtmData).totalUserStories
                        = Cardinality(IdsIn(rtmData) \ {list[i]})

\* generateRTM has resolved a request for a requirement with a linked test
\* case and no criteria and for a requirement whose rows are in the matrix
C23_Witness ==
    /\ promise = "fulfilled"
    /\ rtmData # <<>>
    /\ \E i \in DOMAIN list :
          /\ Returned(i) /\ StoryAt(i).ok
          /\ LinkedTestCases(i) # <<>>
          /\ DOMAIN StoryAt(i).acceptanceCriteria = {}

\* ------------------------------------------------------------------ C24
\* the Test Case IDs in rows, the '' of Missing rows left out
TestCaseIdsIn(rows) == { rows[p].TestCaseId : p \in DOMAIN rows } \ {JsStr(<<>>)}

\* the ids of the fetched test cases whose reference number is a criterion
\* number of the requirement
ReferringIds(tcs, criteria) ==
    { JsNum(tcs[j].id) : j \in { k \in DOMAIN tcs :
          \E acNo \in DOMAIN criteria : tcs[k].acceptanceCriteria = JsNum(acNo) } }

\* C24: for a requirement with linked test cases, the set of Test Case IDs in
\* its rows is exactly the set of fetched test cases whose reference number
\* equals one of its criterion numbers; a fetched test case without
\* reference number appears in no row.
C24_OnlyReferringTestCases ==
    \A i \in DOMAIN list :
        (Returned(i) /\ StoryAt(i).ok /\ LinkedTestCases(i) # <<>>) =>
            /\ TestCaseIdsIn(TaskRows(i))
                  = ReferringIds(LinkedTestCases(i), StoryAt(i).acceptanceCriteria)
            /\ \A j \in DOMAIN LinkedTestCases(i) :
                  LinkedTestCases(i)[j].acceptanceCriteria = JsStr(<<>>) =>
                      \A p \in DOMAIN rtmData :
                          rtmData[p].TestCaseId # JsNum(LinkedTestCases(i)[j].id)

\* the tasks of two requirements have returned: one whose only fetched test
\* case has no reference number and whose rows are all Missing, one with
\* Covered rows
C24_Witness ==
    /\ \E i \in DOMAIN list :
          /\ Returned(i) /\ StoryAt(i).ok
          /\ \E j \in DOMAIN LinkedTestCases(i) :
                LinkedTestCases(i)[j].acceptanceCriteria = JsStr(<<>>)
          /\ TaskRows(i) # <<>>
          /\ TestCaseIdsIn(TaskRows(i)) = {}
    /\ \E i \in DOMAIN list :
          /\ Returned(i) /\ StoryAt(i).ok
          /\ Cardinality(TestCaseIdsIn(TaskRows(i))) >= 2

\* ------------------------------------------------------------------ C25
\* C25 as claimed: the acceptance-criterion numbers parseAcceptanceCriterias
\* produces are 1, 2, ..., N with no gaps, for every list, lists with empty
\* items included.
C25_NumbersSequential_Original ==
    (request.op = "parseAcceptanceCriterias" /\ response.status = "returned") =>
        DOMAIN response.value = 1..Cardinality(DOMAIN response.value)

\* C25 as amended: the number of a criterion is the 1-based position of its
\* list item among all list items of the source HTML, empty ones counted:
\* the numbers are unique, positive and ascending in parse order, the text
\* is the trimmed text of the item, and an empty item leaves its number
\* unused.
C25_NumbersArePositions ==
    (request.op = "parseAcceptanceCriterias" /\ response.status = "returned") =>
        /\ DOMAIN response.value
              = { k \in 1..Len(request.html) : request.trimmed[k] # <<>> }
        /\ \A k \in DOMAIN response.value : response.value[k] = request.trimmed[k]

\* a list whose second item is empty has been parsed: its criteria are
\* numbered 1 and 3
C25_Witness ==
    /\ request.op = "parseAcceptanceCriterias"
    /\ response.status = "returned"
    /\ Len(request.html) = 3
    /\ request.trimmed[2] = <<>>
    /\ DOMAIN response.value = {1, 3}

\* ------------------------------------------------------------------ C26
\* every id of the list has been processed to completion and no worker is
\* inside a task
AllProcessed ==
    /\ \A i \in DOMAIN list : started[i] = 1 /\ finished[i] = 1
    /\ \A w \in DOMAIN workers : workers[w].pc = "done" /\ tasks[w] = NoTask

\* C26: once generateRTM(ids) is invoked, and provided every gateway request
\* eventually returns, the call eventually resolves, and it resolves only
\* after every id of the list has been processed to completion.
C26_RunsToCompletion ==
    /\ [](promise = "fulfilled" => AllProcessed)
    /\ [](promise # "rejected")
    /\ (promise = "pending") ~> (promise = "fulfilled")

\* generateRTM has resolved a request of more ids than there are workers,
\* the last of which pushed its row
C26_Witness ==
    /\ promise = "fulfilled"
    /\ Len(list) > limit
    /\ AllProcessed
    /\ rtmData # <<>>

\* ------------------------------------------------------------------ C27
\* C27: calculateCoverageTrend(weeks) analyses every one of the weeks: the
\* returned data has exactly `weeks` entries, labelled 'Week 1' to
\* 'Week <weeks>' in ascending order, the current week included.
C27_EveryWeekAnalysed ==
    (request.op = "calculateCoverageTrend" /\ response.status = "returned") =>
        /\ Len(response.data) = request.weeks
        /\ \A k \in DOMAIN response.data : response.data[k].week = k

\* ------------------------------------------------------------------ C29
\* C29: the rows appended by one processing of a requirement id form one
\* contiguous block of the matrix: whatever the order in which the
\* concurrent workers' fetches are answered, the rows of two different
\* tasks are never interleaved.
C29_TaskRowsContiguous ==
    \A p, q \in DOMAIN rtmMeta :
        (p < q /\ rtmMeta[p].task = rtmMeta[q].task) =>
            \A r \in p..q : rtmMeta[r].task = rtmMeta[p].task

\* the second task returned while the first, started before it, was still
\* fetching, and each of the two pushed several rows
C29_Witness ==
    /\ promise = "fulfilled"
    /\ Len(rtmMeta) >= 4
    /\ rtmMeta[1].task = 2 /\ rtmMeta[2].task = 2
    /\ rtmMeta[Len(rtmMeta)].task = 1 /\ rtmMeta[Len(rtmMeta) - 1].task = 1
    /\ Len(rtmData) = Len(rtmMeta)

\* ------------------------------------------------------------------ C30
\* the KPI data a /rtm-download request has been answered with
DownloadAnswered ==
    /\ request.op = "GET"
    /\ request.endpoint = "/rtm-download"
    /\ response.status = "sent"
    /\ response.body.kind = "kpi"

\* C30: in the statistics of /rtm-download, execution.total =
\* execution.pass + execution.fail = coverage.totalCovered, overall and for
\* each feature (pass + fail = totalCovered), because every Covered row of
\* the matrix carries the Execution 'Pass' or 'Fail' and every Missing row
\* the Execution ''.
C30_ExecutionCountsCovered ==
    DownloadAnswered =>
        LET kpi == response.body.kpi
        IN  /\ kpi.execution.total = kpi.execution.pass + kpi.execution.fail
            /\ kpi.execution.total = kpi.totalCovered
            /\ \A j \in DOMAIN kpi.moduleWiseCoverage :
                  kpi.moduleWiseCoverage[j].pass + kpi.moduleWiseCoverage[j].fail
                      = kpi.moduleWiseCoverage[j].totalCovered
            /\ \A p \in DOMAIN rtmData :
                  /\ IsCovered(rtmData[p]) => rtmData[p].Execution \in {"Pass", "Fail"}
                  /\ IsMissing(rtmData[p]) => rtmData[p].Execution = ""

\* /rtm-download?story_ids=2,3 has been answered: two features, the first
\* with a passed test case, two failed ones and a criterion without any,
\* the second with missing rows only
C30_Witness ==
    /\ DownloadAnswered
    /\ request.story_ids = <<"2", ",", "3">>
    /\ Len(response.body.kpi.moduleWiseCoverage) = 2
    /\ response.body.kpi.execution.pass = 1
    /\ response.body.kpi.execution.fail = 2
    /\ response.body.kpi.totalCovered = 3
    /\ response.body.kpi.totalUseCases > 3
    /\ response.body.kpi.moduleWiseCoverage[2].totalCovered = 0
====
